---- MODULE Spec2Model ----
(***************************************************************************)
(* A model of mixbox.namespaces.NamespaceSet (src/mixbox/namespaces.py).   *)
(*                                                                         *)
(* A NamespaceSet owns two dicts, __ns_uri_map (uri -> _NamespaceInfo) and *)
(* __prefix_map (prefix -> _NamespaceInfo).  Both dicts hold references to *)
(* the same mutable _NamespaceInfo objects, and assert_valid() compares    *)
(* them with "is", so the model keeps the objects in a heap (a sequence of *)
(* records, the index being the object's identity) and the dicts hold      *)
(* indexes into it.  Strings and None are encoded as small integers: uris  *)
(* 1..NumUris, prefixes 1..NumPrefixes, schema locations 1..NumLocs, None  *)
(* as 0, the empty string as -1.  The order in which a dict is iterated is *)
(* not fixed by the Pythons the package supports, so a dict is a function  *)
(* and every iteration over one takes its order as an input.               *)
(***************************************************************************)
EXTENDS Integers, Sequences, FiniteSets, TLC

VARIABLES ns, last, sub, py, signals, cache, collector

vars == <<ns, last, sub, py, signals, cache, collector>>

\* The state of the modules besides namespaces and entities.
modvars == <<signals, cache, collector>>

\* ---------------------------------------------------------------- bounds
NumUris == 2
NumPrefixes == 2
NumLocs == 2
\* uris that only the sets given to import_from know
NumForeignUris == 1
\* non-empty strings given to the fields of entities
NumTexts == 2
\* length of the sequences given to the fields of entities
MaxSeq == 2
\* entities of a program
NumEntities == 2
\* assignments and appends of a program with entities
MaxEntityCalls == 3
\* elements of an EntityList
MaxList == 2
\* keys of the cache besides None
NumKeys == 2
\* Cached objects of a program
NumCached == 3
\* signals of a program
NumSignals == 2
\* callables that a program connects
NumReceivers == 2
\* references in the list of a signal
MaxConnected == 3
\* calls on a set or on its subset after subset() returned
MaxAfterSubset == 2
\* calls of add_namespace_uri that build a set given to import_from
MaxImport == 2

\* the uris the calls on the set name
URIs == 1..NumUris
\* every uri: those and the foreign ones
AllUris == 1..(NumUris + NumForeignUris)
Prefixes == 1..NumPrefixes
Locs == 1..NumLocs

\* Python's None.
None == 0

\* The empty string "", the one str that is false in a condition.  The
\* module itself registers namespaces with the schema location ''.  An
\* empty prefix is no input of the model: add_prefix asserts that it has
\* none, and the other methods branch on it exactly as they do on None.
EmptyString == -1

\* "not x", for x a str or None
Falsy(x) == x \in {None, EmptyString}

\* "x or None"
OrNone(x) == IF Falsy(x) THEN None ELSE x

\* The values a caller passes as a schema location.
LocArgs == Locs \cup {None, EmptyString}

\* ------------------------------------------------------------ exceptions
NoExc == [type |-> "none", args |-> <<>>]

DuplicatePrefixError(prefix, uri1, uri2) ==
    [type |-> "DuplicatePrefixError", args |-> <<prefix, uri1, uri2>>]

ConflictingSchemaLocationError(ns_uri, loc1, loc2) ==
    [type |-> "ConflictingSchemaLocationError", args |-> <<ns_uri, loc1, loc2>>]

NamespaceNotFoundError(ns_uri) ==
    [type |-> "NamespaceNotFoundError", args |-> <<ns_uri>>]

PrefixNotFoundError(prefix) ==
    [type |-> "PrefixNotFoundError", args |-> <<prefix>>]

TooManyDefaultNamespacesError(ns_uri) ==
    [type |-> "TooManyDefaultNamespacesError", args |-> <<ns_uri>>]

NoPrefixesError(ns_uri) ==
    [type |-> "NoPrefixesError", args |-> <<ns_uri>>]

AssertionError == [type |-> "AssertionError", args |-> <<>>]

\* ------------------------------------------------- sequences, OrderedSet
Range(seq) == {seq[i] : i \in 1..Len(seq)}

RECURSIVE Without(_, _)
\* The sequence with every occurrence of x removed, order kept.
Without(seq, x) ==
    IF seq = <<>> THEN <<>>
    ELSE IF Head(seq) = x THEN Without(Tail(seq), x)
         ELSE <<Head(seq)>> \o Without(Tail(seq), x)

\* list.append in the place of OrderedSet.add
OrderedSetAdd_appends(seq, x) == Append(seq, x)

\* OrderedSet.add: append unless already a member.
OrderedSetAdd(seq, x) == IF x \in Range(seq) THEN seq ELSE Append(seq, x)

\* OrderedSet.discard
OrderedSetDiscard(seq, x) == Without(seq, x)

\* next(iter(prefixes), None)
FirstOrNone(seq) == IF seq = <<>> THEN None ELSE Head(seq)

\* Injective sequences over S of length at most n.
RECURSIVE InjSeqs(_, _)
InjSeqs(S, n) ==
    IF n = 0 THEN {<<>>}
    ELSE LET shorter == InjSeqs(S, n - 1)
             longer == {Append(q, x) : q \in shorter, x \in S}
         IN  shorter \cup {q \in longer : Cardinality(Range(q)) = Len(q)}

\* -------------------------------------------------------- _NamespaceInfo
\* _NamespaceInfo.__construct_from_components
NamespaceInfo(ns_uri, prefix, schema_location) ==
    [uri |-> ns_uri,
     schema_location |-> OrNone(schema_location),
     prefixes |-> IF ~Falsy(prefix) THEN <<prefix>> ELSE <<>>,
     preferred_prefix |-> OrNone(prefix)]

\* ---------------------------------------------------------- NamespaceSet
\* NamespaceSet.__init__ : both dicts empty.  A dict is a function over
\* every possible key (None included for __prefix_map), 0 meaning "key
\* absent".
EmptySet ==
    [heap |-> <<>>,
     ns_uri_map |-> [u \in AllUris |-> 0],
     prefix_map |-> [p \in 0..NumPrefixes |-> 0]]

\* contains_namespace
contains_namespace(s, ns_uri) == s.ns_uri_map[ns_uri] # 0

\* the keys of __ns_uri_map
namespace_uris(s) == {u \in AllUris : contains_namespace(s, u)}

\* __lookup_uri, for a uri of the set
lookup_uri(s, ns_uri) == s.heap[s.ns_uri_map[ns_uri]]

\* "prefix in self.__prefix_map"
InPrefixMap(s, prefix) == s.prefix_map[prefix] # 0

\* Objects that one of the two dicts still refers to.
Referenced(s) ==
    ({s.ns_uri_map[u] : u \in DOMAIN s.ns_uri_map}
        \cup {s.prefix_map[p] : p \in DOMAIN s.prefix_map}) \ {0}

RECURSIVE Ascending(_)
\* The members of a set of numbers, in ascending order.
Ascending(S) ==
    IF S = {} THEN <<>>
    ELSE LET x == CHOOSE x \in S : \A y \in S : x <= y
         IN  <<x>> \o Ascending(S \ {x})

RECURSIVE Dedup(_)
\* A sequence without its repeated elements, first occurrences kept.
Dedup(q) ==
    IF q = <<>> THEN <<>>
    ELSE <<Head(q)>> \o Dedup(Without(Tail(q), Head(q)))

\* Object identities are addresses: only their equality is observable.
\* Collect the objects no dict refers to and renumber the others: the
\* infos of __ns_uri_map by ascending uri, then any object that only
\* __prefix_map refers to.
Renumbered(s) ==
    LET keys == Ascending({u \in DOMAIN s.ns_uri_map : s.ns_uri_map[u] # 0})
        inMap == Dedup([i \in 1..Len(keys) |-> s.ns_uri_map[keys[i]]])
        order == inMap \o Ascending(Referenced(s) \ Range(inMap))
        newId(old) == IF old = 0 THEN 0
                      ELSE CHOOSE k \in 1..Len(order) : order[k] = old
    IN  [heap |-> [k \in 1..Len(order) |-> s.heap[order[k]]],
         ns_uri_map |-> [u \in DOMAIN s.ns_uri_map |-> newId(s.ns_uri_map[u])],
         prefix_map |-> [p \in DOMAIN s.prefix_map |-> newId(s.prefix_map[p])]]

\* Renumbered(s) would change nothing.
IsRenumbered(s) ==
    /\ \A u \in DOMAIN s.ns_uri_map :
          s.ns_uri_map[u] # 0 =>
              s.ns_uri_map[u] =
                  Cardinality({v \in 1..u : s.ns_uri_map[v] # 0})
    /\ Len(s.heap) = Cardinality({u \in DOMAIN s.ns_uri_map : s.ns_uri_map[u] # 0})
    /\ \A p \in DOMAIN s.prefix_map : s.prefix_map[p] <= Len(s.heap)

Normalize(s) == IF IsRenumbered(s) THEN s ELSE Renumbered(s)

\* A NamespaceSet given by two dicts over a heap.
SetOver(heap, dicts) ==
    [heap |-> heap,
     ns_uri_map |-> dicts.ns_uri_map,
     prefix_map |-> dicts.prefix_map]

\* What a NamespaceSet holds, whatever the identities of its objects.
SetValue(s) == Renumbered(s)

\* The two dicts of s when the objects of s come after n others in a heap.
Shifted(s, n) ==
    LET moved(d) == [k \in DOMAIN d |-> IF d[k] = 0 THEN 0 ELSE d[k] + n]
    IN  [ns_uri_map |-> moved(s.ns_uri_map),
         prefix_map |-> moved(s.prefix_map)]

\* __add_namespaceinfo, for a _NamespaceInfo object not yet in the heap
add_namespaceinfo(s, ni) ==
    LET j == Len(s.heap) + 1
    IN  [heap |-> Append(s.heap, ni),
         ns_uri_map |-> [s.ns_uri_map EXCEPT ![ni.uri] = j],
         prefix_map |-> [p \in DOMAIN s.prefix_map |->
                            IF p \in Range(ni.prefixes) THEN j
                            ELSE s.prefix_map[p]]]

\* __check_prefix_conflict naming the two uris in the wrong order
check_prefix_conflict_ni_swapped(s, existing_ni, incoming_prefix) ==
    IF ~InPrefixMap(s, incoming_prefix) THEN NoExc
    ELSE LET prefix_check_ni == s.prefix_map[incoming_prefix]
         IN  IF prefix_check_ni # existing_ni
             THEN DuplicatePrefixError(incoming_prefix,
                                       s.heap[existing_ni].uri,
                                       s.heap[prefix_check_ni].uri)
             ELSE NoExc

\* __check_prefix_conflict with a _NamespaceInfo (by reference) of the set
check_prefix_conflict_ni(s, existing_ni, incoming_prefix) ==
    IF ~InPrefixMap(s, incoming_prefix) THEN NoExc
    ELSE LET prefix_check_ni == s.prefix_map[incoming_prefix]
         IN  IF prefix_check_ni # existing_ni
             THEN DuplicatePrefixError(incoming_prefix,
                                       s.heap[prefix_check_ni].uri,
                                       s.heap[existing_ni].uri)
             ELSE NoExc

\* __check_prefix_conflict with a namespace uri that is not in the set
check_prefix_conflict_uri(s, ns_uri, incoming_prefix) ==
    IF ~InPrefixMap(s, incoming_prefix) THEN NoExc
    ELSE IF contains_namespace(s, ns_uri) THEN AssertionError
    ELSE DuplicatePrefixError(incoming_prefix,
                              s.heap[s.prefix_map[incoming_prefix]].uri,
                              ns_uri)

\* __merge_schema_locations that always takes the incoming value when the
\* two differ and no conflict is raised
merge_schema_locations_overwrites(ni, incoming_schemaloc) ==
    IF ni.schema_location = incoming_schemaloc
    THEN [ni |-> ni, exc |-> NoExc]
    ELSE IF Falsy(ni.schema_location) \/ Falsy(incoming_schemaloc)
    THEN [ni |-> [ni EXCEPT !.schema_location = OrNone(incoming_schemaloc)],
          exc |-> NoExc]
    ELSE [ni |-> ni,
          exc |-> ConflictingSchemaLocationError(ni.uri, ni.schema_location,
                                                 incoming_schemaloc)]

\* __merge_schema_locations: the modified ni, or the exception raised
merge_schema_locations(ni, incoming_schemaloc) ==
    IF ni.schema_location = incoming_schemaloc
    THEN [ni |-> ni, exc |-> NoExc]
    ELSE IF Falsy(ni.schema_location)
    THEN [ni |-> [ni EXCEPT !.schema_location = OrNone(incoming_schemaloc)],
          exc |-> NoExc]
    ELSE IF Falsy(incoming_schemaloc)
    THEN [ni |-> ni, exc |-> NoExc]
    ELSE [ni |-> ni,
          exc |-> ConflictingSchemaLocationError(ni.uri, ni.schema_location,
                                                 incoming_schemaloc)]

\* The merge branch of add_namespace_uri changing the info of the set
\* itself, not a copy of it: the prefix is registered before the schema
\* locations are merged.
add_namespace_uri_merge_in_place(s, ns_uri, prefix, schema_location) ==
    LET ni == s.ns_uri_map[ns_uri]
        conflict == IF ~Falsy(prefix)
                    THEN check_prefix_conflict_ni(s, ni, prefix)
                    ELSE NoExc
        added == IF ~Falsy(prefix)
                 THEN [s EXCEPT !.heap[ni].prefixes = OrderedSetAdd(@, prefix),
                                !.prefix_map[prefix] = ni]
                 ELSE s
        merged == merge_schema_locations(added.heap[ni], schema_location)
    IN  IF conflict # NoExc THEN [ns |-> s, exc |-> conflict]
        ELSE IF merged.exc # NoExc THEN [ns |-> added, exc |-> merged.exc]
        ELSE [ns |-> [added EXCEPT !.heap[ni] = merged.ni], exc |-> NoExc]

\* The merge branch of add_namespace_uri (ns_uri is in the set): a deep
\* copy of the info is changed and swapped in after the last check.
add_namespace_uri_merge(s, ns_uri, prefix, schema_location) ==
    LET ni == s.ns_uri_map[ns_uri]
        conflict == IF ~Falsy(prefix)
                    THEN check_prefix_conflict_ni(s, ni, prefix)
                    ELSE NoExc
        copied == s.heap[ni]
        new_ni == IF ~Falsy(prefix)
                  THEN [copied EXCEPT !.prefixes = OrderedSetAdd(@, prefix)]
                  ELSE copied
        merged == merge_schema_locations(new_ni, schema_location)
        j == Len(s.heap) + 1
    IN  IF conflict # NoExc THEN [ns |-> s, exc |-> conflict]
        ELSE IF merged.exc # NoExc THEN [ns |-> s, exc |-> merged.exc]
        ELSE [ns |-> [heap |-> Append(s.heap, merged.ni),
                      ns_uri_map |-> [s.ns_uri_map EXCEPT ![merged.ni.uri] = j],
                      prefix_map |->
                          [p \in DOMAIN s.prefix_map |->
                              IF p \in Range(merged.ni.prefixes) THEN j
                              ELSE s.prefix_map[p]]],
              exc |-> NoExc]

\* The branch of add_namespace_uri for a uri that is not in the set.
add_namespace_uri_new(s, ns_uri, prefix, schema_location) ==
    LET conflict == IF ~Falsy(prefix)
                    THEN check_prefix_conflict_uri(s, ns_uri, prefix)
                    ELSE NoExc
    IN  IF conflict # NoExc THEN [ns |-> s, exc |-> conflict]
        ELSE [ns |-> add_namespaceinfo(
                         s, NamespaceInfo(ns_uri, prefix, schema_location)),
              exc |-> NoExc]

\* add_namespace_uri: the set after the call and the exception raised
add_namespace_uri(s, ns_uri, prefix, schema_location) ==
    IF contains_namespace(s, ns_uri)
    THEN add_namespace_uri_merge(s, ns_uri, prefix, schema_location)
    ELSE add_namespace_uri_new(s, ns_uri, prefix, schema_location)

RECURSIVE DelPrefixes(_, _)
\* "for prefix in ni.prefixes: del self.__prefix_map[prefix]"; del of a
\* missing key raises KeyError and ends the loop.
DelPrefixes(s, prefixes) ==
    IF prefixes = <<>> THEN [ns |-> s, exc |-> NoExc]
    ELSE IF ~InPrefixMap(s, Head(prefixes))
    THEN [ns |-> s, exc |-> [type |-> "KeyError", args |-> <<Head(prefixes)>>]]
    ELSE DelPrefixes([s EXCEPT !.prefix_map[Head(prefixes)] = 0],
                     Tail(prefixes))

\* remove_namespace that leaves the prefix map alone
remove_namespace_keeps_prefixes(s, ns_uri) ==
    [ns |-> [s EXCEPT !.ns_uri_map[ns_uri] = 0], exc |-> NoExc]

\* remove_namespace
remove_namespace(s, ns_uri) ==
    IF ~contains_namespace(s, ns_uri) THEN [ns |-> s, exc |-> NoExc]
    ELSE LET ni == s.heap[s.ns_uri_map[ns_uri]]
         IN  DelPrefixes([s EXCEPT !.ns_uri_map[ns_uri] = 0], ni.prefixes)

\* add_prefix that ignores set_as_preferred
add_prefix_never_preferred(s, ns_uri, prefix, set_as_preferred) ==
    IF ~contains_namespace(s, ns_uri)
    THEN [ns |-> s, exc |-> NamespaceNotFoundError(ns_uri)]
    ELSE LET ni == s.ns_uri_map[ns_uri]
             conflict == check_prefix_conflict_ni(s, ni, prefix)
         IN  IF conflict # NoExc THEN [ns |-> s, exc |-> conflict]
             ELSE [ns |-> [s EXCEPT
                              !.heap[ni].prefixes = OrderedSetAdd(@, prefix),
                              !.prefix_map[prefix] = ni],
                   exc |-> NoExc]

\* add_prefix (prefix is not None: the method asserts it)
add_prefix(s, ns_uri, prefix, set_as_preferred) ==
    IF ~contains_namespace(s, ns_uri)
    THEN [ns |-> s, exc |-> NamespaceNotFoundError(ns_uri)]
    ELSE LET ni == s.ns_uri_map[ns_uri]
             conflict == check_prefix_conflict_ni(s, ni, prefix)
             added == [s EXCEPT !.heap[ni].prefixes = OrderedSetAdd(@, prefix),
                                !.prefix_map[prefix] = ni]
         IN  IF conflict # NoExc THEN [ns |-> s, exc |-> conflict]
             ELSE IF set_as_preferred
             THEN [ns |-> [added EXCEPT !.heap[ni].preferred_prefix = prefix],
                   exc |-> NoExc]
             ELSE [ns |-> added, exc |-> NoExc]

\* remove_prefix without the election of a new preferred prefix
remove_prefix_no_election(s, prefix) ==
    IF ~InPrefixMap(s, prefix) THEN [ns |-> s, exc |-> NoExc]
    ELSE LET ni == s.prefix_map[prefix]
         IN  [ns |-> [s EXCEPT
                         !.heap[ni].prefixes = OrderedSetDiscard(@, prefix),
                         !.prefix_map[prefix] = 0],
              exc |-> NoExc]

\* remove_prefix that elects a new preferred prefix whatever was removed
remove_prefix_always_elects(s, prefix) ==
    IF ~InPrefixMap(s, prefix) THEN [ns |-> s, exc |-> NoExc]
    ELSE LET ni == s.prefix_map[prefix]
             discarded == [s EXCEPT
                             !.heap[ni].prefixes = OrderedSetDiscard(@, prefix),
                             !.prefix_map[prefix] = 0]
         IN  [ns |-> [discarded EXCEPT !.heap[ni].preferred_prefix =
                         FirstOrNone(discarded.heap[ni].prefixes)],
              exc |-> NoExc]

\* remove_prefix
remove_prefix(s, prefix) ==
    IF ~InPrefixMap(s, prefix) THEN [ns |-> s, exc |-> NoExc]
    ELSE LET ni == s.prefix_map[prefix]
             discarded == [s EXCEPT
                             !.heap[ni].prefixes = OrderedSetDiscard(@, prefix),
                             !.prefix_map[prefix] = 0]
         IN  IF s.heap[ni].preferred_prefix = prefix
             THEN [ns |-> [discarded EXCEPT !.heap[ni].preferred_prefix =
                              FirstOrNone(discarded.heap[ni].prefixes)],
                   exc |-> NoExc]
             ELSE [ns |-> discarded, exc |-> NoExc]

\* set_preferred_prefix_for_namespace
set_preferred_prefix_for_namespace(s, ns_uri, prefix, add_if_not_exist) ==
    IF ~contains_namespace(s, ns_uri)
    THEN [ns |-> s, exc |-> NamespaceNotFoundError(ns_uri)]
    ELSE LET ni == s.ns_uri_map[ns_uri]
         IN  IF Falsy(prefix)
             THEN [ns |-> [s EXCEPT !.heap[ni].preferred_prefix = None],
                   exc |-> NoExc]
             ELSE IF prefix \in Range(s.heap[ni].prefixes)
             THEN [ns |-> [s EXCEPT !.heap[ni].preferred_prefix = prefix],
                   exc |-> NoExc]
             ELSE IF add_if_not_exist
             THEN add_prefix(s, ns_uri, prefix, TRUE)
             ELSE [ns |-> s, exc |-> PrefixNotFoundError(prefix)]

\* set_schema_location that treats clearing (None) as a replacement
set_schema_location_clear_conflicts(s, ns_uri, schema_location, replace) ==
    IF ~contains_namespace(s, ns_uri)
    THEN [ns |-> s, exc |-> NamespaceNotFoundError(ns_uri)]
    ELSE LET ni == s.ns_uri_map[ns_uri]
             cur == s.heap[ni].schema_location
         IN  IF cur = schema_location THEN [ns |-> s, exc |-> NoExc]
             ELSE IF replace \/ cur = None
             THEN [ns |-> [s EXCEPT !.heap[ni].schema_location = schema_location],
                   exc |-> NoExc]
             ELSE [ns |-> s,
                   exc |-> ConflictingSchemaLocationError(ns_uri, cur,
                                                          schema_location)]

\* set_schema_location
set_schema_location(s, ns_uri, schema_location, replace) ==
    IF ~contains_namespace(s, ns_uri)
    THEN [ns |-> s, exc |-> NamespaceNotFoundError(ns_uri)]
    ELSE LET ni == s.ns_uri_map[ns_uri]
             cur == s.heap[ni].schema_location
         IN  IF cur = schema_location THEN [ns |-> s, exc |-> NoExc]
             ELSE IF replace \/ cur = None
             THEN [ns |-> [s EXCEPT !.heap[ni].schema_location = schema_location],
                   exc |-> NoExc]
             ELSE IF schema_location = None
             THEN [ns |-> [s EXCEPT !.heap[ni].schema_location = None],
                   exc |-> NoExc]
             ELSE [ns |-> s,
                   exc |-> ConflictingSchemaLocationError(ns_uri, cur,
                                                          schema_location)]

RECURSIVE CheckPrefixesUri(_, _, _)
\* "for other_prefix in other_ni.prefixes:
\*      self.__check_prefix_conflict(other_ns_uri, other_prefix)"
CheckPrefixesUri(s, ns_uri, prefixes) ==
    IF prefixes = <<>> THEN NoExc
    ELSE LET c == check_prefix_conflict_uri(s, ns_uri, Head(prefixes))
         IN  IF c # NoExc THEN c
             ELSE CheckPrefixesUri(s, ns_uri, Tail(prefixes))

RECURSIVE CheckPrefixesNi(_, _, _)
\* "for other_prefix in other_ni.prefixes:
\*      self.__check_prefix_conflict(ni, other_prefix)"
CheckPrefixesNi(s, ni, prefixes) ==
    IF prefixes = <<>> THEN NoExc
    ELSE LET c == check_prefix_conflict_ni(s, ni, Head(prefixes))
         IN  IF c # NoExc THEN c
             ELSE CheckPrefixesNi(s, ni, Tail(prefixes))

\* import_from whose replacement keeps the schema location of the receiver
\* when the other set has none
import_one_keeps_location(s, other_ns, other_ns_uri, replace) ==
    LET other_ni == other_ns.heap[other_ns.ns_uri_map[other_ns_uri]]
    IN  IF ~contains_namespace(s, other_ns_uri)
        THEN LET c == CheckPrefixesUri(s, other_ns_uri, other_ni.prefixes)
             IN  IF c # NoExc THEN [ns |-> s, exc |-> c]
                 ELSE [ns |-> add_namespaceinfo(s, other_ni), exc |-> NoExc]
        ELSE IF replace
        THEN LET c == CheckPrefixesNi(s, s.ns_uri_map[other_ns_uri],
                                      other_ni.prefixes)
                 removed == remove_namespace(s, other_ns_uri)
                 kept == IF other_ni.schema_location = None
                         THEN [other_ni EXCEPT !.schema_location =
                                  lookup_uri(s, other_ns_uri).schema_location]
                         ELSE other_ni
             IN  IF c # NoExc THEN [ns |-> s, exc |-> c]
                 ELSE IF removed.exc # NoExc THEN removed
                 ELSE [ns |-> add_namespaceinfo(removed.ns, kept),
                       exc |-> NoExc]
        ELSE [ns |-> s, exc |-> NoExc]

\* One iteration of the loop of import_from, for the uri other_ns_uri of
\* other_ns.
import_one(s, other_ns, other_ns_uri, replace) ==
    LET other_ni == other_ns.heap[other_ns.ns_uri_map[other_ns_uri]]
    IN  IF ~contains_namespace(s, other_ns_uri)
        THEN LET c == CheckPrefixesUri(s, other_ns_uri, other_ni.prefixes)
             IN  IF c # NoExc THEN [ns |-> s, exc |-> c]
                 ELSE [ns |-> add_namespaceinfo(s, other_ni), exc |-> NoExc]
        ELSE IF replace
        THEN LET c == CheckPrefixesNi(s, s.ns_uri_map[other_ns_uri],
                                      other_ni.prefixes)
                 removed == remove_namespace(s, other_ns_uri)
             IN  IF c # NoExc THEN [ns |-> s, exc |-> c]
                 ELSE IF removed.exc # NoExc THEN removed
                 ELSE [ns |-> add_namespaceinfo(removed.ns, other_ni),
                       exc |-> NoExc]
        ELSE [ns |-> s, exc |-> NoExc]

RECURSIVE import_from(_, _, _, _)
\* import_from; order is the order in which other_ns.namespace_uris yields
\* the uris of other_ns.
import_from(s, other_ns, order, replace) ==
    IF order = <<>> THEN [ns |-> s, exc |-> NoExc]
    ELSE LET r == import_one(s, other_ns, Head(order), replace)
         IN  IF r.exc # NoExc THEN r
             ELSE import_from(r.ns, other_ns, Tail(order), replace)

\* assert_valid does not raise
is_valid(s) ==
    /\ \A ns_uri \in DOMAIN s.ns_uri_map :
          s.ns_uri_map[ns_uri] # 0 =>
              LET ref == s.ns_uri_map[ns_uri]
                  ni == s.heap[ref]
              IN  /\ ~Falsy(ni.uri)
                  /\ ns_uri = ni.uri
                  /\ \/ ni.preferred_prefix = None
                     \/ ni.preferred_prefix \in Range(ni.prefixes)
                  /\ \A prefix \in Range(ni.prefixes) :
                        /\ ~Falsy(prefix)
                        /\ s.prefix_map[prefix] # 0
                        /\ s.prefix_map[prefix] = ref
    /\ s.prefix_map[None] = 0

\* --------------------------------------------------------------- queries
\* One xmlns declaration of the string get_xmlns_string builds:
\* xmlns:prefix="uri", or xmlns="uri" when prefix is None.
Xmlns(prefix, uri) == [prefix |-> prefix, uri |-> uri]

\* sorted(ns_uris)
Sorted(q) == Ascending(Range(q))

\* The declarations get_xmlns_string makes of ni's prefixes before it
\* looks at the default namespace: the preferred prefix alone, or every
\* prefix.
PrefixDeclarations(ni, preferred_prefixes_only) ==
    IF preferred_prefixes_only
    THEN IF ni.preferred_prefix # None
         THEN <<Xmlns(ni.preferred_prefix, ni.uri)>>
         ELSE <<>>
    ELSE [i \in 1..Len(ni.prefixes) |-> Xmlns(ni.prefixes[i], ni.uri)]

\* DefaultDeclaration that never remembers that a default was declared
DefaultDeclaration_forgets(ni, preferred_prefixes_only, have_default) ==
    IF have_default
    THEN IF Len(ni.prefixes) = 0
         THEN [entries |-> <<>>, have_default |-> have_default,
               exc |-> TooManyDefaultNamespacesError(ni.uri)]
         ELSE IF preferred_prefixes_only
         THEN [entries |-> <<Xmlns(Head(ni.prefixes), ni.uri)>>,
               have_default |-> have_default, exc |-> NoExc]
         ELSE [entries |-> <<>>, have_default |-> have_default,
               exc |-> NoExc]
    ELSE [entries |-> <<Xmlns(None, ni.uri)>>, have_default |-> have_default,
          exc |-> NoExc]

\* DefaultDeclaration that looks for a missing prefix only when it has to
\* declare one (preferred_prefixes_only)
DefaultDeclaration_lenient(ni, preferred_prefixes_only, have_default) ==
    IF have_default
    THEN IF preferred_prefixes_only
         THEN IF Len(ni.prefixes) = 0
              THEN [entries |-> <<>>, have_default |-> have_default,
                    exc |-> TooManyDefaultNamespacesError(ni.uri)]
              ELSE [entries |-> <<Xmlns(Head(ni.prefixes), ni.uri)>>,
                    have_default |-> have_default, exc |-> NoExc]
         ELSE [entries |-> <<>>, have_default |-> have_default,
               exc |-> NoExc]
    ELSE [entries |-> <<Xmlns(None, ni.uri)>>, have_default |-> TRUE,
          exc |-> NoExc]

\* DefaultDeclaration that declares no prefix for a namespace that cannot
\* be the default
DefaultDeclaration_silent(ni, preferred_prefixes_only, have_default) ==
    IF have_default
    THEN IF Len(ni.prefixes) = 0
         THEN [entries |-> <<>>, have_default |-> have_default,
               exc |-> TooManyDefaultNamespacesError(ni.uri)]
         ELSE [entries |-> <<>>, have_default |-> have_default,
               exc |-> NoExc]
    ELSE [entries |-> <<Xmlns(None, ni.uri)>>, have_default |-> TRUE,
          exc |-> NoExc]

\* What get_xmlns_string does for an info whose preferred prefix is None:
\* the declarations it adds, the new have_default flag, the exception.
DefaultDeclaration(ni, preferred_prefixes_only, have_default) ==
    IF have_default
    THEN IF Len(ni.prefixes) = 0
         THEN [entries |-> <<>>, have_default |-> have_default,
               exc |-> TooManyDefaultNamespacesError(ni.uri)]
         ELSE IF preferred_prefixes_only
         THEN [entries |-> <<Xmlns(Head(ni.prefixes), ni.uri)>>,
               have_default |-> have_default, exc |-> NoExc]
         ELSE [entries |-> <<>>, have_default |-> have_default,
               exc |-> NoExc]
    ELSE [entries |-> <<Xmlns(None, ni.uri)>>, have_default |-> TRUE,
          exc |-> NoExc]

RECURSIVE XmlnsLoop(_, _, _, _, _)
\* The loop of get_xmlns_string over the uris still to visit.
XmlnsLoop(s, ns_uris, preferred_prefixes_only, have_default, xmlns_entries) ==
    IF ns_uris = <<>> THEN [ret |-> xmlns_entries, exc |-> NoExc]
    ELSE IF ~contains_namespace(s, Head(ns_uris))
    THEN [ret |-> None, exc |-> NamespaceNotFoundError(Head(ns_uris))]
    ELSE
      LET ni == s.heap[s.ns_uri_map[Head(ns_uris)]]
          declared == xmlns_entries \o
                          PrefixDeclarations(ni, preferred_prefixes_only)
          d == DefaultDeclaration(ni, preferred_prefixes_only, have_default)
      IN  IF ni.preferred_prefix # None
          THEN XmlnsLoop(s, Tail(ns_uris), preferred_prefixes_only,
                         have_default, declared)
          ELSE IF d.exc # NoExc THEN [ret |-> None, exc |-> d.exc]
          ELSE XmlnsLoop(s, Tail(ns_uris), preferred_prefixes_only,
                         d.have_default, declared \o d.entries)

\* get_xmlns_string: the declarations of the returned string, in order
\* (the string joins them with delim), or the exception raised.
get_xmlns_string(s, ns_uris, sort, preferred_prefixes_only) ==
    XmlnsLoop(s, IF sort THEN Sorted(ns_uris) ELSE ns_uris,
              preferred_prefixes_only, FALSE, <<>>)

\* The ns_uris argument of get_schemaloc_string: None, or a list of uris.
NoUris == [is_none |-> TRUE, uris |-> <<>>]
UriList(uris) == [is_none |-> FALSE, uris |-> uris]

\* "not ns_uris": None and the empty list are falsy.
NotUris(ns_uris) == ns_uris.is_none \/ ns_uris.uris = <<>>

\* "{0.uri} {0.schema_location}".format(ni)
SchemalocPair(ni) == [uri |-> ni.uri, schema_location |-> ni.schema_location]

\* The strings that get_schemaloc_string returns: '' and
\* 'xsi:schemaLocation="..."' with the pairs joined by delim.
EmptyText == [attribute |-> "", pairs |-> <<>>]
SchemaLocationAttribute(schemalocs) ==
    [attribute |-> "xsi:schemaLocation", pairs |-> schemalocs]

RECURSIVE SchemalocLoop(_, _, _)
\* The loop of get_schemaloc_string over the uris still to visit.
SchemalocLoop(s, ns_uris, schemalocs) ==
    IF ns_uris = <<>> THEN [ret |-> schemalocs, exc |-> NoExc]
    ELSE IF ~contains_namespace(s, Head(ns_uris))
    THEN [ret |-> <<>>, exc |-> NamespaceNotFoundError(Head(ns_uris))]
    ELSE SchemalocLoop(s, Tail(ns_uris),
                       IF Falsy(lookup_uri(s, Head(ns_uris)).schema_location)
                       THEN schemalocs
                       ELSE Append(schemalocs,
                                   SchemalocPair(lookup_uri(s, Head(ns_uris)))))

\* "if not schemalocs: return ''" and the format of the attribute
SchemalocResult(r) ==
    IF r.exc # NoExc THEN [ret |-> EmptyText, exc |-> r.exc]
    ELSE IF r.ret = <<>> THEN [ret |-> EmptyText, exc |-> NoExc]
    ELSE [ret |-> SchemaLocationAttribute(r.ret), exc |-> NoExc]

\* The uris that get_schemaloc_string visits: those given, or the keys of
\* the uri map (in the order keys of the dict) when "not ns_uris"; sorted
\* when sort is true.
SchemalocUris(ns_uris, keys, sort) ==
    IF sort
    THEN Sorted(IF NotUris(ns_uris) THEN keys ELSE ns_uris.uris)
    ELSE IF NotUris(ns_uris) THEN keys ELSE ns_uris.uris

\* get_schemaloc_string
get_schemaloc_string(s, ns_uris, keys, sort) ==
    SchemalocResult(SchemalocLoop(s, SchemalocUris(ns_uris, keys, sort), <<>>))

\* MapPrefix that takes the first registered prefix before the preferred
MapPrefix_first(ni) ==
    IF Len(ni.prefixes) > 0 THEN Head(ni.prefixes)
    ELSE ni.preferred_prefix

\* The prefix that get_uri_prefix_map and get_prefix_uri_map choose for an
\* info, None when they raise NoPrefixesError.
MapPrefix(ni) ==
    IF ~Falsy(ni.preferred_prefix) THEN ni.preferred_prefix
    ELSE IF Len(ni.prefixes) > 0 THEN Head(ni.prefixes)
    ELSE None

RECURSIVE UriPrefixLoop(_, _, _)
UriPrefixLoop(s, order, mapping) ==
    IF order = <<>> THEN [ret |-> mapping, exc |-> NoExc]
    ELSE LET ni == s.heap[s.ns_uri_map[Head(order)]]
         IN  IF MapPrefix(ni) = None
             THEN [ret |-> None, exc |-> NoPrefixesError(ni.uri)]
             ELSE UriPrefixLoop(s, Tail(order),
                                [mapping EXCEPT ![ni.uri] = MapPrefix(ni)])

\* get_uri_prefix_map: a dict uri -> prefix (0 where the uri is no key);
\* order is the order in which the dict yields its values.
get_uri_prefix_map(s, order) ==
    UriPrefixLoop(s, order, [u \in AllUris |-> 0])

RECURSIVE PrefixUriLoop(_, _, _)
PrefixUriLoop(s, order, mapping) ==
    IF order = <<>> THEN [ret |-> mapping, exc |-> NoExc]
    ELSE LET ni == s.heap[s.ns_uri_map[Head(order)]]
         IN  IF MapPrefix(ni) = None
             THEN [ret |-> None, exc |-> NoPrefixesError(ni.uri)]
             ELSE PrefixUriLoop(s, Tail(order),
                                [mapping EXCEPT ![MapPrefix(ni)] = ni.uri])

\* get_prefix_uri_map: a dict prefix -> uri (0 where the prefix is no key)
get_prefix_uri_map(s, order) ==
    PrefixUriLoop(s, order, [p \in Prefixes |-> 0])

\* ------------------------------------------------------- the source sets
\* The schema locations given to the namespaces of a source set: none, or
\* one location.  import_from copies the infos whole and never reads the
\* location.
SourceLocArgs == {None, NumLocs}

RECURSIVE Built(_)
\* The NamespaceSets that at most n calls of add_namespace_uri build from
\* an empty one (the way the module builds XML_NAMESPACES and the tests
\* build the sets they import).
Built(n) ==
    IF n = 0 THEN {EmptySet}
    ELSE LET prev == Built(n - 1)
         IN  prev \cup {Normalize(add_namespace_uri(o, u, p, l).ns) :
                            o \in prev, u \in AllUris,
                            p \in Prefixes \cup {None}, l \in SourceLocArgs}

OtherSets == Built(MaxImport)

\* The orders in which the uris of a set can be iterated.
Orders(s) ==
    {q \in InjSeqs(namespace_uris(s), Cardinality(namespace_uris(s))) :
        Range(q) = namespace_uris(s)}

\* What import_from is called with: a source set, with the order in which
\* its namespace_uris yields its uris.
Imports == UNION {{<<other, order>> : order \in Orders(other)} :
                     other \in OtherSets}

\* ------------------------------------------------------------- the calls
\* What is recorded of a call: the method called and its parameters, the
\* set before the call, the exception raised (NoExc when it returned) and
\* the value returned.
Call(op, params, pre, exc, ret) ==
    [call |-> op, params |-> params, pre |-> pre, exc |-> exc, ret |-> ret]

\* No call has been made since the caller took the last outcome.
Idle == Call("none", <<>>, EmptySet, NoExc, None)

\* ------------------------------------------------- a program with entities
\* The entities of the program are the objects py.ents[1], py.ents[2], ...
\* held is the caller's reference to the list that the last __get__ of a
\* multiple field returned: the list stored in a field, or a list that no
\* entity stores (any more).
Nothing == [kind |-> "none"]
StoredAt(slot, attr) == [kind |-> "stored", slot |-> slot, attr |-> attr]
Detached(value) == [kind |-> "detached", value |-> value]

\* No entity has been created.
NoEntities == [ents |-> <<>>, held |-> Nothing, calls |-> 0]

\* subset() has not been called: there is no second set.  Otherwise sub
\* holds the two dicts of the NamespaceSet that subset() returned; they refer
\* to objects of the heap of ns, the one heap of the program.
NoSubset ==
    [present |-> FALSE,
     ns_uri_map |-> EmptySet.ns_uri_map,
     prefix_map |-> EmptySet.prefix_map,
     calls |-> 0]

\* The signals that programs name and the callables that they have for
\* receivers.
Signals == 1..NumSignals
Receivers == 1..NumReceivers

\* The module signals when it is imported: __receivers, a defaultdict of
\* lists, has no key (keys are the signals it has a list for, receivers
\* the list of each, a list of weak references, each standing for the
\* callable it refers to).  alive are the callables of the program that
\* have not been garbage-collected: a reference to another one is dead.
SignalsImported ==
    [receivers |-> [s \in Signals |-> <<>>], keys |-> {}, alive |-> Receivers]

\* The keys of the cache (None is a key as well) and the Cached objects
\* that a program makes.
CacheKeys == 1..NumKeys
CachedObjects == 1..NumCached

\* "the object has no attribute id_"
NoAttribute == -1

\* The module cache when it is imported and the objects of the program
\* when they are made: _CACHE, a defaultdict of WeakSets, has no key
\* (keys are its keys, items the set of each, which holds the objects
\* that are alive only); no object has an id_.
CacheImported ==
    [keys |-> {},
     items |-> [k \in CacheKeys \cup {None} |-> {}],
     id_ |-> [o \in CachedObjects |-> NoAttribute],
     alive |-> CachedObjects]

\* A Namespace tuple; the schema location defaults to None.
Namespace(name, prefix, schema_location) ==
    [name |-> name, prefix |-> prefix, schema_location |-> schema_location]

\* NamespaceSet.add_namespace
add_namespace(s, namespace) ==
    add_namespace_uri(s, namespace.name, namespace.prefix,
                      namespace.schema_location)

\* namespaces.NS_XLINK, NS_XML_DSIG, NS_XML_SCHEMA, NS_XML_SCHEMA_INSTANCE:
\* the namespaces that the module defines itself, each with a prefix and
\* the schema location ''.  The model has one of them: the last uri, with
\* the last prefix.
NS_XLINK == Namespace(NumUris + NumForeignUris, NumPrefixes, EmptyString)

\* namespaces.XML_NAMESPACES, as the loop at the end of the module builds
\* it.
XML_NAMESPACES == Normalize(add_namespace(EmptySet, NS_XLINK).ns)

\* namespaces.__ALL_NAMESPACES when the module is imported: the same loop
\* registers the namespaces of the module.
ALL_NAMESPACES == Normalize(add_namespace(EmptySet, NS_XLINK).ns)

\* A dict that is None (an attribute of a NamespaceCollector before
\* finalize), and a dict that is set.
NoneDict == [present |-> FALSE, map |-> [u \in AllUris |-> 0]]
SomeDict(map) == [present |-> TRUE, map |-> map]

\* A NamespaceSet attribute that is None, and one that is set.
NoneSet == [present |-> FALSE, set |-> EmptySet]
SomeSet(s) == [present |-> TRUE, set |-> s]

\* The classes of the program whose instances are collected:
\*   class A(Entity), class B(A), class C(B)
\* A class body may define _namespace, _XSI_NS and _XSI_TYPE; declared[k]
\* is what the body of k defines, None for an attribute it does not define.
\* xsi_type is the attribute split at ":" : the number of parts and the
\* first part.
CollectedClassNames == {"A", "B", "C"}
NoXsiType == [parts |-> 0, alias |-> None]
Undeclared == [namespace |-> None, xsi_ns |-> None, xsi_type |-> NoXsiType]

\* NamespaceCollector.__init__, with the part of the program that the
\* collector reads: the global registry of namespaces.py, the class
\* attributes and the __input_namespaces__ of the entities, and the number
\* of calls of finalize made.  A dict with string keys is the sequence of
\* its items in insertion order.
NamespaceCollector_init(registry, declared) ==
    [registry |-> registry,
     declared |-> declared,
     inputs |-> {<<>>},
     finalize_calls |-> 0,
     collected_namespaces |-> NoneSet,
     input_namespaces |-> <<>>,
     collected_classes |-> {},
     finalized_schemalocs |-> NoneDict,
     binding_namespaces |-> NoneDict]

\* The modules besides namespaces and entities, when they are imported.
ModulesInit ==
    /\ signals = SignalsImported
    /\ cache = CacheImported
    /\ collector = NamespaceCollector_init(
                       ALL_NAMESPACES,
                       [k \in CollectedClassNames |-> Undeclared])

Init ==
    /\ ns = EmptySet
    /\ ModulesInit
    /\ last = Idle
    /\ sub = NoSubset
    /\ py = NoEntities

\* The caller takes the outcome of the last call and goes on.
Return ==
    /\ last.call # "none"
    /\ last' = Idle
    /\ UNCHANGED <<ns, sub, py, modvars>>

AddNamespaceUri ==
    /\ last.call = "none"
    /\ UNCHANGED <<sub, py, modvars>>
    /\ \E u \in URIs, p \in Prefixes \cup {None}, l \in LocArgs :
          LET r == add_namespace_uri(ns, u, p, l)
          IN  /\ ns' = Normalize(r.ns)
              /\ last' = Call("add_namespace_uri", <<u, p, l>>, ns, r.exc, None)

RemoveNamespace ==
    /\ last.call = "none"
    /\ UNCHANGED <<sub, py, modvars>>
    /\ \E u \in URIs :
          LET r == remove_namespace(ns, u)
          IN  /\ ns' = Normalize(r.ns)
              /\ last' = Call("remove_namespace", <<u>>, ns, r.exc, None)

AddPrefix ==
    /\ last.call = "none"
    /\ UNCHANGED <<sub, py, modvars>>
    /\ \E u \in URIs, p \in Prefixes, pref \in BOOLEAN :
          LET r == add_prefix(ns, u, p, pref)
          IN  /\ ns' = Normalize(r.ns)
              /\ last' = Call("add_prefix", <<u, p, pref>>, ns, r.exc, None)

RemovePrefix ==
    /\ last.call = "none"
    /\ UNCHANGED <<sub, py, modvars>>
    /\ \E p \in Prefixes :
          LET r == remove_prefix(ns, p)
          IN  /\ ns' = Normalize(r.ns)
              /\ last' = Call("remove_prefix", <<p>>, ns, r.exc, None)

SetPreferredPrefixForNamespace ==
    /\ last.call = "none"
    /\ UNCHANGED <<sub, py, modvars>>
    /\ \E u \in URIs, p \in Prefixes \cup {None}, add \in BOOLEAN :
          LET r == set_preferred_prefix_for_namespace(ns, u, p, add)
          IN  /\ ns' = Normalize(r.ns)
              /\ last' = Call("set_preferred_prefix_for_namespace",
                              <<u, p, add>>, ns, r.exc, None)

SetSchemaLocation ==
    /\ last.call = "none"
    /\ UNCHANGED <<sub, py, modvars>>
    /\ \E u \in URIs, l \in LocArgs, replace \in BOOLEAN :
          LET r == set_schema_location(ns, u, l, replace)
          IN  /\ ns' = Normalize(r.ns)
              /\ last' = Call("set_schema_location", <<u, l, replace>>, ns,
                              r.exc, None)

\* self.import_from(other_ns, replace): other_ns lives in the heap of the
\* program as the receiver does; what other_ns holds when the call is over
\* is recorded as ret.
ImportFrom ==
    /\ last.call = "none"
    /\ UNCHANGED <<sub, py, modvars>>
    /\ \E import \in Imports, replace \in BOOLEAN :
          LET other == import[1]
              order == import[2]
              heap == ns.heap \o other.heap
              other_ns == SetOver(heap, Shifted(other, Len(ns.heap)))
              r == import_from([ns EXCEPT !.heap = heap], other_ns, order,
                               replace)
          IN  /\ ns' = Normalize(r.ns)
              /\ last' = Call("import_from", <<other, order, replace>>, ns,
                              r.exc, SetValue(SetOver(r.ns.heap, other_ns)))

GetXmlnsString ==
    /\ last.call = "none"
    /\ UNCHANGED <<sub, py, modvars>>
    /\ \E ns_uris \in InjSeqs(URIs, NumUris), sort \in BOOLEAN,
          preferred_prefixes_only \in BOOLEAN :
          LET r == get_xmlns_string(ns, ns_uris, sort, preferred_prefixes_only)
          IN  /\ last' = Call("get_xmlns_string",
                              <<ns_uris, sort, preferred_prefixes_only>>, ns,
                              r.exc, r.ret)
              /\ UNCHANGED ns

GetUriPrefixMap ==
    /\ last.call = "none"
    /\ UNCHANGED <<sub, py, modvars>>
    /\ \E order \in Orders(ns) :
          LET r == get_uri_prefix_map(ns, order)
          IN  /\ last' = Call("get_uri_prefix_map", <<order>>, ns, r.exc, r.ret)
              /\ UNCHANGED ns

GetPrefixUriMap ==
    /\ last.call = "none"
    /\ UNCHANGED <<sub, py, modvars>>
    /\ \E order \in Orders(ns) :
          LET r == get_prefix_uri_map(ns, order)
          IN  /\ last' = Call("get_prefix_uri_map", <<order>>, ns, r.exc, r.ret)
              /\ UNCHANGED ns

GetSchemalocString ==
    /\ last.call = "none"
    /\ UNCHANGED <<sub, py, modvars>>
    /\ \E ns_uris \in {NoUris} \cup {UriList(q) : q \in InjSeqs(URIs, NumUris)},
          keys \in Orders(ns), sort \in BOOLEAN :
          \E r \in {get_schemaloc_string(ns, ns_uris, keys, sort)} :
              /\ last' = Call("get_schemaloc_string", <<ns_uris, keys, sort>>,
                              ns, r.exc, r.ret)
              /\ UNCHANGED ns

Query ==
    \/ GetXmlnsString
    \/ GetSchemalocString
    \/ GetUriPrefixMap
    \/ GetPrefixUriMap

Mutate ==
    \/ AddNamespaceUri
    \/ RemoveNamespace
    \/ AddPrefix
    \/ RemovePrefix
    \/ SetPreferredPrefixForNamespace
    \/ SetSchemaLocation

Next ==
    \/ Mutate
    \/ Query
    \/ Return

Spec == Init /\ [][Next]_vars

NextImport ==
    \/ Mutate
    \/ ImportFrom
    \/ Return

SpecImport == Init /\ [][NextImport]_vars

\* --------------------------------------------- a set and its subset
\* The subset, over the heap it shares with ns.
SubsetView == SetOver(ns.heap, sub)

\* The objects of a set in the order Renumbered gives them.
ObjectOrder(s) ==
    LET keys == Ascending({u \in DOMAIN s.ns_uri_map : s.ns_uri_map[u] # 0})
        inMap == Dedup([i \in 1..Len(keys) |-> s.ns_uri_map[keys[i]]])
    IN  inMap \o Ascending(Referenced(s) \ Range(inMap))

RECURSIVE WithoutAll(_, _)
\* The sequence without the members of S.
WithoutAll(seq, S) ==
    IF seq = <<>> THEN <<>>
    ELSE IF Head(seq) \in S THEN WithoutAll(Tail(seq), S)
         ELSE <<Head(seq)>> \o WithoutAll(Tail(seq), S)

\* Normalize for two sets over one heap: the objects of the first set
\* come first, then those that only the second one refers to; objects that
\* neither refers to are collected.
NormalizeBoth(heap, first, second) ==
    LET a == ObjectOrder(first)
        order == a \o WithoutAll(ObjectOrder(second), Range(a))
        newId(old) == IF old = 0 THEN 0
                      ELSE CHOOSE k \in 1..Len(order) : order[k] = old
        renamed(d) == [u \in DOMAIN d |-> newId(d[u])]
    IN  [ns |-> [heap |-> [k \in 1..Len(order) |-> heap[order[k]]],
                 ns_uri_map |-> renamed(first.ns_uri_map),
                 prefix_map |-> renamed(first.prefix_map)],
         sub |-> [ns_uri_map |-> renamed(second.ns_uri_map),
                  prefix_map |-> renamed(second.prefix_map)]]

\* the same object in the place of copy.deepcopy(ni)
deepcopy_same_object(heap, ni) == [heap |-> heap, ref |-> ni]

\* copy.deepcopy(ni), ni an object of the heap: a new object with equal
\* fields (a _NamespaceInfo holds strings and an OrderedSet of strings).
deepcopy(heap, ni) == [heap |-> Append(heap, heap[ni]), ref |-> Len(heap) + 1]

\* __add_namespaceinfo, for a _NamespaceInfo object of the heap
add_namespaceinfo_ref(s, ni) ==
    [s EXCEPT !.ns_uri_map[s.heap[ni].uri] = ni,
              !.prefix_map = [p \in DOMAIN @ |->
                                 IF p \in Range(s.heap[ni].prefixes) THEN ni
                                 ELSE @[p]]]

RECURSIVE subset_loop(_, _, _)
\* The loop of subset: s is the source, sub_ns the subset so far; the heap
\* of sub_ns is the one that grows.
subset_loop(s, sub_ns, ns_uris) ==
    IF ns_uris = <<>> THEN [ns |-> sub_ns, exc |-> NoExc]
    ELSE IF ~contains_namespace(s, Head(ns_uris))
    THEN [ns |-> sub_ns, exc |-> NamespaceNotFoundError(Head(ns_uris))]
    ELSE LET new_ni == deepcopy(sub_ns.heap, s.ns_uri_map[Head(ns_uris)])
         IN  subset_loop(s,
                         add_namespaceinfo_ref(
                             [sub_ns EXCEPT !.heap = new_ni.heap], new_ni.ref),
                         Tail(ns_uris))

\* subset
subset(s, ns_uris) == subset_loop(s, [EmptySet EXCEPT !.heap = s.heap], ns_uris)

\* The iterables of uris given to subset: repeated uris and uris that are
\* not in the set included.
UriSeqs == UNION {[1..n -> URIs] : n \in 0..NumUris}

\* The calls that change a set, with their arguments; the schema locations
\* are those of SourceLocArgs.
MutatingCalls ==
    {<<"add_namespace_uri", u, p, l>> :
        u \in URIs, p \in Prefixes \cup {None}, l \in SourceLocArgs}
    \cup {<<"remove_namespace", u>> : u \in URIs}
    \cup {<<"add_prefix", u, p, pref>> :
            u \in URIs, p \in Prefixes, pref \in BOOLEAN}
    \cup {<<"remove_prefix", p>> : p \in Prefixes}
    \cup {<<"set_preferred_prefix_for_namespace", u, p, add>> :
            u \in URIs, p \in Prefixes \cup {None}, add \in BOOLEAN}
    \cup {<<"set_schema_location", u, l, replace>> :
            u \in URIs, l \in SourceLocArgs, replace \in BOOLEAN}

\* The call c made on the set s.
Apply(s, c) ==
    CASE c[1] = "add_namespace_uri" -> add_namespace_uri(s, c[2], c[3], c[4])
      [] c[1] = "remove_namespace" -> remove_namespace(s, c[2])
      [] c[1] = "add_prefix" -> add_prefix(s, c[2], c[3], c[4])
      [] c[1] = "remove_prefix" -> remove_prefix(s, c[2])
      [] c[1] = "set_preferred_prefix_for_namespace" ->
            set_preferred_prefix_for_namespace(s, c[2], c[3], c[4])
      [] c[1] = "set_schema_location" ->
            set_schema_location(s, c[2], c[3], c[4])

\* What is recorded of a call where two sets live: as Call, with the set
\* the call was made on and the subset before the call.
CallOn(on, op, params, exc) ==
    [call |-> op, params |-> params, pre |-> ns, exc |-> exc, ret |-> None,
     on |-> on, sub_pre |-> sub]

\* sub = ns.subset(ns_uris); one subset is taken.
Subset ==
    /\ last.call = "none"
    /\ UNCHANGED <<py, modvars>>
    /\ ~sub.present
    /\ \E ns_uris \in UriSeqs :
          LET r == subset(ns, ns_uris)
              w == NormalizeBoth(r.ns.heap, ns,
                                 IF r.exc = NoExc THEN r.ns ELSE EmptySet)
          IN  /\ ns' = w.ns
              /\ sub' = IF r.exc = NoExc
                        THEN [present |-> TRUE,
                              ns_uri_map |-> w.sub.ns_uri_map,
                              prefix_map |-> w.sub.prefix_map,
                              calls |-> 0]
                        ELSE sub
              /\ last' = CallOn("source", "subset", <<ns_uris>>, r.exc)

\* A mutating call on ns, before or after the subset was taken.
SourceCall ==
    /\ last.call = "none"
    /\ UNCHANGED <<py, modvars>>
    /\ sub.present => sub.calls < MaxAfterSubset
    /\ \E c \in MutatingCalls :
          LET r == Apply(ns, c)
              w == NormalizeBoth(r.ns.heap, r.ns, sub)
          IN  /\ ns' = w.ns
              /\ sub' = [sub EXCEPT !.ns_uri_map = w.sub.ns_uri_map,
                                    !.prefix_map = w.sub.prefix_map,
                                    !.calls = IF sub.present THEN @ + 1 ELSE @]
              /\ last' = CallOn("source", c[1], Tail(c), r.exc)

\* A mutating call on the subset.
SubsetCall ==
    /\ last.call = "none"
    /\ UNCHANGED <<py, modvars>>
    /\ sub.present
    /\ sub.calls < MaxAfterSubset
    /\ \E c \in MutatingCalls :
          LET r == Apply(SubsetView, c)
              w == NormalizeBoth(r.ns.heap, ns, r.ns)
          IN  /\ ns' = w.ns
              /\ sub' = [sub EXCEPT !.ns_uri_map = w.sub.ns_uri_map,
                                    !.prefix_map = w.sub.prefix_map,
                                    !.calls = @ + 1]
              /\ last' = CallOn("subset", c[1], Tail(c), r.exc)

NextSubset ==
    \/ SourceCall
    \/ Subset
    \/ SubsetCall
    \/ Return

SpecSubset == Init /\ [][NextSubset]_vars

\* ====================================================================
\* Entity and TypedField (src/mixbox/entities.py, src/mixbox/fields.py)
\*
\* A Python value is a record tagged with its type.  An Entity value holds
\* its class and its _fields dict (a function over the attributes of the
\* class, Absent meaning "key not in _fields").  The callers of the model
\* hand fresh objects to the methods, so an object lives in one place only
\* and its place stands for its identity: two lists, or two entities,
\* stored in different places are different objects.
\* ====================================================================
PyNone == [t |-> "NoneType"]

\* A str: 0 is '', the others are non-empty strings.
Str(s) == [t |-> "str", v |-> s]

Texts == {Str(s) : s \in 1..NumTexts}

\* "key not in instance._fields"
Absent == [t |-> "absent"]

\* a list
List(items) == [t |-> "list", items |-> items]

\* a mixbox.typedlist.TypedList
TypedList(type, items) == [t |-> "TypedList", type |-> type, items |-> items]

\* a tuple that a caller passes
Tuple(items) == [t |-> "tuple", items |-> items]

\* a dict with string keys
Dict(items) == [t |-> "dict", items |-> items]

Entity(cls, fields) == [t |-> "Entity", class |-> cls, fields |-> fields]

\* bool(x)
Truthy(x) ==
    CASE x.t = "NoneType" -> FALSE
      [] x.t = "str" -> x.v # 0
      [] x.t \in {"list", "TypedList", "tuple"} -> x.items # <<>>
      [] x.t = "dict" -> DOMAIN x.items # {}
      [] OTHER -> TRUE

\* datautils.is_sequence: has __iter__ and is not a string
is_sequence(value) == value.t \in {"list", "TypedList", "tuple", "dict"}

\* type(value), a class of the model or the name of a builtin type
TypeOf(value) == IF value.t = "Entity" THEN value.class ELSE value.t

\* type_=None
NoClass == "None"

\* str.lower for the field names of the model
lower(name) ==
    CASE name = "Name" -> "name"
      [] name = "Note" -> "note"
      [] name = "Single" -> "single"
      [] name = "Multiple" -> "multiple"
      [] name = "Memo" -> "memo"
      [] name = "Foo" -> "foo"
      [] name = "Foos" -> "foos"
      [] name = "Bar" -> "bar"
      [] name = "Item" -> "item"
      [] name = "Label" -> "label"
      [] name = "Extra" -> "extra"
      [] OTHER -> name

\* TypedField.__init__ (kind is the class of the field object)
TypedField(kind, name, type_, comparable, multiple) ==
    [kind |-> kind, name |-> name, key_name |-> lower(name), type_ |-> type_,
     comparable |-> comparable, multiple |-> multiple]

\* The classes of the model.  Foo is the Foo of test_hash_and_equality (its
\* constructor takes the name, here with a default), Doc the SomeEntity of
\* test_untyped_multiple with a field that is not comparable, Box holds
\* entities, Bar has no comparable field and is not castable, Ref has an
\* id and an idref:
\*   class Foo(Entity):
\*       name = TypedField("Name")
\*       def __init__(self, name=None):
\*           super(Foo, self).__init__(); self.name = name
\*   class Bar(Entity):
\*       _try_cast = False
\*       note = TypedField("Note", comparable=False)
\*   class Doc(Entity):
\*       single = TypedField("Single")
\*       multiple = TypedField("Multiple", multiple=True)
\*       memo = TypedField("Memo", comparable=False)
\*   class Box(Entity):
\*       foo = TypedField("Foo", type_=Foo)
\*       foos = TypedField("Foos", type_=Foo, multiple=True)
\*       bar = TypedField("Bar", type_=Bar)
\*   class Ref(Entity):
\*       id_ = IdField("id")
\*       idref = IdrefField("idref")
EntityClasses == {"Foo", "Bar", "Doc", "Box", "Ref"}

\* The TypedField object that is the attribute attr of its class.
Field(attr) ==
    CASE attr = "name" -> TypedField("TypedField", "Name", NoClass, TRUE, FALSE)
      [] attr = "note" -> TypedField("TypedField", "Note", NoClass, FALSE, FALSE)
      [] attr = "single" -> TypedField("TypedField", "Single", NoClass, TRUE, FALSE)
      [] attr = "multiple" -> TypedField("TypedField", "Multiple", NoClass, TRUE, TRUE)
      [] attr = "memo" -> TypedField("TypedField", "Memo", NoClass, FALSE, FALSE)
      [] attr = "foo" -> TypedField("TypedField", "Foo", "Foo", TRUE, FALSE)
      [] attr = "foos" -> TypedField("TypedField", "Foos", "Foo", TRUE, TRUE)
      [] attr = "bar" -> TypedField("TypedField", "Bar", "Bar", TRUE, FALSE)
      [] attr = "id_" -> TypedField("IdField", "id", NoClass, TRUE, FALSE)
      [] attr = "idref" -> TypedField("IdrefField", "idref", NoClass, TRUE, FALSE)
      [] attr = "Base.item" -> TypedField("TypedField", "Item", NoClass, TRUE, FALSE)
      [] attr = "Base.same" -> TypedField("UnsetField", "Item", NoClass, TRUE, FALSE)
      [] attr = "Child.item" -> TypedField("TypedField", "item", "Bar", TRUE, FALSE)
      [] attr = "Child.extra" -> TypedField("TypedField", "Extra", NoClass, TRUE, FALSE)
      [] attr = "FooList.foos" -> TypedField("TypedField", "foo", "Foo", TRUE, TRUE)
      [] attr = "FooBox.foos" -> TypedField("TypedField", "Foo", "Foo", TRUE, TRUE)
      [] attr = "FooBox.label" -> TypedField("TypedField", "Label", NoClass, TRUE, FALSE)

\* Entity.typed_fields: inspect.getmembers yields the attributes sorted by
\* name.
typed_fields(cls) ==
    CASE cls = "Foo" -> <<"name">>
      [] cls = "Bar" -> <<"note">>
      [] cls = "Doc" -> <<"memo", "multiple", "single">>
      [] cls = "Box" -> <<"bar", "foo", "foos">>
      [] cls = "Ref" -> <<"id_", "idref">>
      [] cls = "FooList" -> <<"FooList.foos">>
      [] cls = "FooBox" -> <<"FooBox.foos", "FooBox.label">>

\* cls._try_cast
try_cast(cls) == cls # "Bar"

\* TypeError
TypeError(args) == [type |-> "TypeError", args |-> args]

\* Entity.__init__: self._fields = {}
NewEntity(cls) == Entity(cls, [a \in Range(typed_fields(cls)) |-> Absent])

\* cls(*args): Foo stores the name it is given, the other classes have
\* Entity.__init__, which takes no argument.
Construct(cls, args) ==
    IF cls = "Foo"
    THEN [value |-> Entity("Foo", [name |-> IF args = <<>> THEN PyNone
                                            ELSE args[1]]),
          exc |-> NoExc]
    ELSE IF args = <<>> THEN [value |-> NewEntity(cls), exc |-> NoExc]
    ELSE [value |-> PyNone, exc |-> TypeError(<<"__init__", cls>>)]

\* Entity.istypeof: isinstance(obj, cls)
istypeof(cls, obj) == obj.t = "Entity" /\ obj.class = cls

\* A call that returned the value v.
Returned(v) == [value |-> v, exc |-> NoExc]

\* The statements after a call (what F does with the value returned) run
\* when the call returned; an exception leaves through them.
Then(x, F(_)) == IF x.exc # NoExc THEN x ELSE F(x.value)

\* TypedField.check_type
check_type(field, value) ==
    IF field.type_ = NoClass THEN TRUE
    ELSE istypeof(field.type_, value)

\* TypedField._clean that casts whatever the type says
clean_always_casts(field, value) ==
    IF value = PyNone THEN [value |-> PyNone, exc |-> NoExc]
    ELSE IF field.type_ = NoClass THEN [value |-> value, exc |-> NoExc]
    ELSE IF check_type(field, value) THEN [value |-> value, exc |-> NoExc]
    ELSE Construct(field.type_, <<value>>)

\* TypedField._clean
clean(field, value) ==
    IF value = PyNone THEN [value |-> PyNone, exc |-> NoExc]
    ELSE IF field.type_ = NoClass THEN [value |-> value, exc |-> NoExc]
    ELSE IF check_type(field, value) THEN [value |-> value, exc |-> NoExc]
    ELSE IF try_cast(field.type_) THEN Construct(field.type_, <<value>>)
    ELSE [value |-> PyNone,
          exc |-> TypeError(<<field.name, field.type_, TypeOf(value)>>)]

\* TypedList.insert at the end (append)
TypedList_append(list, value) ==
    IF value = PyNone THEN [value |-> list, exc |-> NoExc]
    ELSE IF istypeof(list.type, value)
    THEN [value |-> [list EXCEPT !.items = Append(@, value)], exc |-> NoExc]
    ELSE IF try_cast(list.type)
    THEN LET c == Construct(list.type, <<value>>)
         IN  IF c.exc # NoExc
             THEN [value |-> list,
                   exc |-> TypeError(<<"put", list.type, TypeOf(value)>>)]
             ELSE [value |-> [list EXCEPT !.items = Append(@, c.value)],
                   exc |-> NoExc]
    ELSE [value |-> list,
          exc |-> TypeError(<<"insert", list.type, TypeOf(value)>>)]

RECURSIVE TypedList_extend(_, _)
\* MutableSequence.extend: append every item
TypedList_extend(list, items) ==
    IF items = <<>> THEN Returned(list)
    ELSE Then(TypedList_append(list, Head(items)),
              LAMBDA l : TypedList_extend(l, Tail(items)))

\* self._listfunc(items): list for a field without a type, TypedList of the
\* type otherwise
listfunc(field, items) ==
    IF field.type_ = NoClass THEN [value |-> List(items), exc |-> NoExc]
    ELSE TypedList_extend(TypedList(field.type_, <<>>), items)

RECURSIVE clean_each_keeps_none(_, _)
\* "self._clean(x) for x in value"
clean_each_keeps_none(field, items) ==
    IF items = <<>> THEN Returned(<<>>)
    ELSE Then(clean(field, Head(items)), LAMBDA c :
              Then(clean_each_keeps_none(field, Tail(items)), LAMBDA rest :
                   Returned(<<c>> \o rest)))

RECURSIVE clean_each(_, _)
\* "self._clean(x) for x in value if x is not None"
clean_each(field, items) ==
    IF items = <<>> THEN Returned(<<>>)
    ELSE IF Head(items) = PyNone THEN clean_each(field, Tail(items))
    ELSE Then(clean(field, Head(items)), LAMBDA c :
              Then(clean_each(field, Tail(items)), LAMBDA rest :
                   Returned(<<c>> \o rest)))

\* The value that TypedField.__set__ stores (lines 202-210).
normalized(field, value) ==
    IF field.multiple
    THEN IF value = PyNone THEN listfunc(field, <<>>)
         ELSE IF ~is_sequence(value)
         THEN Then(clean(field, value), LAMBDA c : listfunc(field, <<c>>))
         ELSE Then(clean_each(field, value.items),
                   LAMBDA cs : listfunc(field, cs))
    ELSE clean(field, value)

\* A store under the name of the field: every field object of that name
\* gets the value.
store_by_name(entity, attr, v) ==
    IF v.exc # NoExc THEN [entity |-> entity, exc |-> v.exc]
    ELSE [entity |->
              [entity EXCEPT !.fields =
                  [a \in DOMAIN @ |->
                      IF Field(a).name = Field(attr).name THEN v.value
                      ELSE @[a]]],
          exc |-> NoExc]

\* "instance._fields[self] = value" (line 215), reached when the value was
\* made without an exception.
store(entity, attr, v) ==
    IF v.exc # NoExc THEN [entity |-> entity, exc |-> v.exc]
    ELSE [entity |-> [entity EXCEPT !.fields[attr] = v.value], exc |-> NoExc]

\* TypedField.__set__ (the fields of the model have no hooks)
TypedField_set(entity, attr, value) ==
    store(entity, attr, normalized(Field(attr), value))

\* isinstance(field, types)
IsFieldInstance(field, types) ==
    field.kind \in types \/ "TypedField" \in types

\* fields.unset
unset(entity, types) ==
    [entity EXCEPT !.fields =
        [a \in DOMAIN @ |-> IF IsFieldInstance(Field(a), types) THEN Absent
                            ELSE @[a]]]

\* __set__ without the unset of IdField and IdrefField
set_keeps_others(entity, attr, value) == TypedField_set(entity, attr, value)

\* "if value: unset(instance, IdrefField)" of IdField.__set__ and its
\* counterpart of IdrefField.__set__, after the value r was stored.
unset_other(r, kind, value) ==
    IF r.exc # NoExc THEN r
    ELSE IF kind = "IdField" /\ Truthy(value)
    THEN [entity |-> unset(r.entity, {"IdrefField"}), exc |-> NoExc]
    ELSE IF kind = "IdrefField" /\ Truthy(value)
    THEN [entity |-> unset(r.entity, {"IdField"}), exc |-> NoExc]
    ELSE r

\* field.__set__(entity, value): TypedField.__set__, IdField.__set__ or
\* IdrefField.__set__
set(entity, attr, value) ==
    unset_other(TypedField_set(entity, attr, value), Field(attr).kind, value)

\* __get__ that does not store the list it makes
get_without_store(entity, attr) ==
    IF entity.fields[attr] # Absent
    THEN [entity |-> entity, value |-> entity.fields[attr], stored |-> TRUE]
    ELSE IF Field(attr).multiple
    THEN [entity |-> entity, value |-> listfunc(Field(attr), <<>>).value,
          stored |-> FALSE]
    ELSE [entity |-> entity, value |-> PyNone, stored |-> FALSE]

\* "instance._fields.setdefault(self, default)" for a field that is not in
\* _fields.
setdefault(entity, attr, default) ==
    [entity |-> [entity EXCEPT !.fields[attr] = default], value |-> default,
     stored |-> TRUE]

\* TypedField.__get__ for an instance: the value returned, the entity
\* afterwards, and whether the object returned is the one in _fields.
get(entity, attr) ==
    IF entity.fields[attr] # Absent
    THEN [entity |-> entity, value |-> entity.fields[attr], stored |-> TRUE]
    ELSE IF Field(attr).multiple
    THEN setdefault(entity, attr, listfunc(Field(attr), <<>>).value)
    ELSE [entity |-> entity, value |-> PyNone, stored |-> FALSE]

\* cls_dict.get(key)
dict_get(dict, key) ==
    IF key \in DOMAIN dict.items THEN dict.items[key] ELSE PyNone

RECURSIVE to_dict(_)
\* entities._dictify; dict_value of a TypedField returns its argument
dictify(field, value) ==
    IF value = PyNone THEN PyNone
    ELSE IF field.type_ # NoClass THEN to_dict(value)
    ELSE value

\* The value that to_dict gives to a field holding val (lines 313-319).
dict_value(field, val) ==
    IF field.multiple
    THEN IF Truthy(val)
         THEN List([i \in 1..Len(val.items) |-> dictify(field, val.items[i])])
         ELSE List(<<>>)
    ELSE dictify(field, val)

\* "val is not None and val != []": the fields that to_dict writes, vals
\* giving the value made for each field (None for a field not in _fields).
written(vals) == {a \in DOMAIN vals : vals[a] # PyNone /\ vals[a] # List(<<>>)}

\* "entity_dict[field.key_name] = val" for the fields written.
entity_dict(vals) ==
    Dict([k \in {Field(a).key_name : a \in written(vals)} |->
             vals[CHOOSE a \in written(vals) : Field(a).key_name = k]])

\* Entity.to_dict
to_dict(entity) ==
    entity_dict([a \in DOMAIN entity.fields |->
                    IF entity.fields[a] = Absent THEN PyNone
                    ELSE dict_value(Field(a), entity.fields[a])])

RECURSIVE from_dict(_, _)
RECURSIVE from_dict_each(_, _)
\* "[transformer.from_dict(x) for x in val]"
from_dict_each(cls, items) ==
    IF items = <<>> THEN Returned(<<>>)
    ELSE Then(from_dict(cls, Head(items)), LAMBDA x :
              Then(from_dict_each(cls, Tail(items)), LAMBDA rest :
                   Returned(<<x>> \o rest)))

\* The value that from_dict sets for a field (lines 388-402); the
\* transformer of a field of the model is its type_.
from_dict_value(field, val) ==
    IF field.type_ # NoClass
    THEN IF field.multiple
         THEN IF val # PyNone
              THEN Then(from_dict_each(field.type_, val.items),
                        LAMBDA xs : Returned(List(xs)))
              ELSE Returned(List(<<>>))
         ELSE from_dict(field.type_, val)
    ELSE IF field.multiple /\ ~Truthy(val)
    THEN Returned(List(<<>>))
    ELSE Returned(val)

RECURSIVE from_dict_fields(_, _, _)
\* The loop of from_dict goes on with the fields attrs when
\* field.__set__ returned.
from_dict_rest(r, attrs, cls_dict) ==
    IF r.exc # NoExc THEN [value |-> PyNone, exc |-> r.exc]
    ELSE from_dict_fields(r.entity, attrs, cls_dict)

\* "for field in cls.typed_fields(): ... field.__set__(entity, val)"
from_dict_fields(entity, attrs, cls_dict) ==
    IF attrs = <<>> THEN Returned(entity)
    ELSE Then(from_dict_value(Field(Head(attrs)),
                              dict_get(cls_dict, Field(Head(attrs)).key_name)),
              LAMBDA val : from_dict_rest(set(entity, Head(attrs), val),
                                          Tail(attrs), cls_dict))

\* Entity.from_dict
from_dict(cls, cls_dict) ==
    IF cls_dict = PyNone THEN [value |-> PyNone, exc |-> NoExc]
    ELSE IF cls_dict.t # "dict" THEN Construct(cls, <<cls_dict>>)
    ELSE from_dict_fields(Construct(cls, <<>>).value, typed_fields(cls),
                          cls_dict)

\* The comparable fields of a class, in the order of typed_fields.
RECURSIVE Comparable(_)
Comparable(attrs) ==
    IF attrs = <<>> THEN <<>>
    ELSE IF Field(Head(attrs)).comparable
    THEN <<Head(attrs)>> \o Comparable(Tail(attrs))
    ELSE Comparable(Tail(attrs))

RECURSIVE PyEq(_, _)
RECURSIVE eq_all(_, _, _)
\* "f.__get__(self) == f.__get__(other)" for one field, mine and theirs
\* being what the two __get__ gave, and all() going on with the fields
\* rest when the two are equal.
eq_field(mine, theirs, rest) ==
    IF PyEq(mine.value, theirs.value)
    THEN eq_all(mine.entity, theirs.entity, rest)
    ELSE [self |-> mine.entity, other |-> theirs.entity, ret |-> FALSE]

\* "all(f.__get__(self) == f.__get__(other) for f in typedfields)": all()
\* stops at the first pair that differs, and __get__ stores an empty list
\* in an entity that has none.
eq_all(self, other, attrs) ==
    IF attrs = <<>> THEN [self |-> self, other |-> other, ret |-> TRUE]
    ELSE eq_field(get(self, Head(attrs)), get(other, Head(attrs)),
                  Tail(attrs))

\* Entity.__eq__ that takes entities without comparable fields for equal
eq_vacuous(self, other) ==
    IF other.t # "Entity" \/ self.class # other.class
    THEN [self |-> self, other |-> other, ret |-> FALSE]
    ELSE eq_all(self, other, Comparable(typed_fields(self.class)))

\* Entity.__eq__, for self and other two different objects
eq(self, other) ==
    IF other.t # "Entity" \/ self.class # other.class
    THEN [self |-> self, other |-> other, ret |-> FALSE]
    ELSE IF Comparable(typed_fields(self.class)) = <<>>
    THEN [self |-> self, other |-> other, ret |-> FALSE]
    ELSE eq_all(self, other, Comparable(typed_fields(self.class)))

\* a == b for two different objects.  A TypedList has no __eq__ (neither
\* has MutableSequence), so it is equal to itself only; lists compare
\* their items; str and None compare by value.
PyEq(a, b) ==
    CASE a.t = "Entity" -> eq(a, b).ret
      [] a.t # "Entity" /\ b.t = "Entity" -> eq(b, a).ret
      [] a.t # "Entity" /\ b.t # "Entity"
           /\ (a.t = "TypedList" \/ b.t = "TypedList") -> FALSE
      [] a.t = b.t /\ a.t \in {"list", "tuple"} ->
           /\ Len(a.items) = Len(b.items)
           /\ \A i \in 1..Len(a.items) : PyEq(a.items[i], b.items[i])
      [] a.t = b.t /\ a.t = "dict" ->
           /\ DOMAIN a.items = DOMAIN b.items
           /\ \A k \in DOMAIN a.items : PyEq(a.items[k], b.items[k])
      [] OTHER -> a = b

\* ------------------------------------------------- a program with entities
\* The sequences of at most MaxSeq members of S.
SeqsOf(S) == UNION {[1..n -> S] : n \in 0..MaxSeq}

\* The values that callers assign to a field.  A field without a type is
\* given None, '' and strings, and tuples of them when it is multiple; a
\* field with a type is given None, a string, a Foo and a Bar, and tuples
\* of None, a string and a Foo when it is multiple.
SetArgs(attr) ==
    IF Field(attr).type_ = NoClass
    THEN IF Field(attr).multiple
         THEN {PyNone, Str(1)}
                  \cup {Tuple(items) : items \in SeqsOf({PyNone, Str(1)})}
         ELSE {PyNone, Str(0)} \cup Texts
    ELSE {PyNone, Str(1), Construct("Foo", <<Str(1)>>).value,
          Construct("Bar", <<>>).value}
             \cup IF Field(attr).multiple
                  THEN {Tuple(items) :
                           items \in SeqsOf({PyNone, Str(1),
                                             Construct("Foo", <<Str(1)>>).value})}
                  ELSE {}

\* What callers append to a list they hold.
Elements == {PyNone, Str(1), Construct("Foo", <<Str(1)>>).value}

\* The classes in a fixed order.
ClassSeq == <<"Foo", "Bar", "Doc", "Box", "Ref">>

\* The program starts with NumEntities entities made by cls().  The
\* methods treat the entities alike, so of the orders in which the
\* classes can be taken one is enough.
InitEntity ==
    /\ ns = EmptySet
    /\ ModulesInit
    /\ sub = NoSubset
    /\ last = Idle
    /\ \E order \in [1..NumEntities -> DOMAIN ClassSeq] :
          /\ \A i, j \in DOMAIN order : i < j => order[i] <= order[j]
          /\ py = [ents |-> [i \in DOMAIN order |->
                                Construct(ClassSeq[order[i]], <<>>).value],
                   held |-> Nothing, calls |-> 0]

\* The attributes of the entity in a slot.
Attrs(slot) == DOMAIN py.ents[slot].fields

\* entity.attr = value
SetField ==
    /\ last.call = "none"
    /\ py.calls < MaxEntityCalls
    /\ UNCHANGED <<ns, sub, modvars>>
    /\ \E slot \in DOMAIN py.ents :
          \E attr \in Attrs(slot) : \E value \in SetArgs(attr) :
              \E r \in {set(py.ents[slot], attr, value)} :
                  /\ py' = [ents |-> [py.ents EXCEPT ![slot] = r.entity],
                            held |-> IF /\ r.exc = NoExc
                                        /\ py.held = StoredAt(slot, attr)
                                     THEN Detached(py.ents[slot].fields[attr])
                                     ELSE py.held,
                            calls |-> py.calls + 1]
                  /\ last' = Call("__set__", <<slot, attr, value>>, py, r.exc,
                                  None)

\* held = entity.attr
GetField ==
    /\ last.call = "none"
    /\ UNCHANGED <<ns, sub, modvars>>
    /\ \E slot \in DOMAIN py.ents :
          \E attr \in Attrs(slot) :
              \E g \in {get(py.ents[slot], attr)} :
                  /\ py' = [py EXCEPT
                              !.ents[slot] = g.entity,
                              !.held = IF ~Field(attr).multiple THEN @
                                       ELSE IF g.stored
                                       THEN StoredAt(slot, attr)
                                       ELSE Detached(g.value)]
                  /\ last' = Call("__get__", <<slot, attr>>, py, NoExc,
                                  g.value)

\* The list that held refers to.
HeldList(p) ==
    IF p.held.kind = "stored"
    THEN p.ents[p.held.slot].fields[p.held.attr]
    ELSE p.held.value

\* list.append, TypedList.append
append(list, value) ==
    IF list.t = "TypedList" THEN TypedList_append(list, value)
    ELSE [value |-> [list EXCEPT !.items = Append(@, value)], exc |-> NoExc]

\* held.append(value)
AppendHeld ==
    /\ last.call = "none"
    /\ py.calls < MaxEntityCalls
    /\ py.held.kind # "none"
    /\ UNCHANGED <<ns, sub, modvars>>
    /\ \E value \in Elements :
          \E r \in {append(HeldList(py), value)} :
              /\ py' = IF py.held.kind = "stored"
                       THEN [py EXCEPT
                               !.ents[py.held.slot].fields[py.held.attr] =
                                   r.value,
                               !.calls = @ + 1]
                       ELSE [py EXCEPT !.held = Detached(r.value),
                                       !.calls = @ + 1]
              /\ last' = Call("append", <<value>>, py, r.exc, None)

\* entity.to_dict()
ToDict ==
    /\ last.call = "none"
    /\ UNCHANGED <<ns, sub, py, modvars>>
    /\ \E slot \in DOMAIN py.ents :
          last' = Call("to_dict", <<slot>>, py, NoExc, to_dict(py.ents[slot]))

\* type(entity).from_dict(entity.to_dict()) == entity
RoundTrip ==
    /\ last.call = "none"
    /\ UNCHANGED <<ns, sub, modvars>>
    /\ \E slot \in DOMAIN py.ents :
          \E copy \in {from_dict(py.ents[slot].class, to_dict(py.ents[slot]))} :
              IF copy.exc # NoExc
              THEN /\ py' = py
                   /\ last' = Call("round_trip", <<slot>>, py, copy.exc, FALSE)
              ELSE \E r \in {eq(copy.value, py.ents[slot])} :
                      /\ py' = [py EXCEPT !.ents[slot] = r.other]
                      /\ last' = Call("round_trip", <<slot>>, py, NoExc,
                                      r.ret)

\* entity == other
Eq ==
    /\ last.call = "none"
    /\ UNCHANGED <<ns, sub, modvars>>
    /\ \E slot \in DOMAIN py.ents, other \in DOMAIN py.ents :
          IF slot = other
          THEN /\ py' = py
               /\ last' = Call("__eq__", <<slot, other>>, py, NoExc, TRUE)
          ELSE \E r \in {eq(py.ents[slot], py.ents[other])} :
                   /\ py' = [py EXCEPT !.ents[slot] = r.self,
                                       !.ents[other] = r.other]
                   /\ last' = Call("__eq__", <<slot, other>>, py, NoExc,
                                   r.ret)

NextEntity ==
    \/ SetField
    \/ GetField
    \/ AppendHeld
    \/ ToDict
    \/ RoundTrip
    \/ Eq
    \/ Return

SpecEntity == InitEntity /\ [][NextEntity]_vars

\* ====================================================================
\* Fields with hooks, fields of one name, and fields of a superclass.
\* Two more classes, whose field objects are named by the class that
\* defines them and the attribute (the key of _fields is the field
\* object; an instance of Child has the field objects of Base as well,
\* Base.item being hidden by Child.item for attribute access but
\* reachable as Base.item.__set__(child, value)):
\*   class UnsetField(TypedField): pass
\*   class Base(Entity):
\*       item = TypedField("Item", preset_hook=record, postset_hook=record)
\*       same = UnsetField("Item", postset_hook=record)
\*   class Child(Base):
\*       item = TypedField("item", type_=Bar, preset_hook=record,
\*                         postset_hook=record)
\*       extra = TypedField("Extra", preset_hook=record)
\* where record(instance, value) notes which hook it is, the value it is
\* given and what instance._fields holds for the field at that moment.
\* ====================================================================
HookedClasses == {"Base", "Child"}

\* cls.__dict__: the field objects that the class body defines
ClassDict(cls) ==
    CASE cls = "Base" -> [item |-> "Base.item", same |-> "Base.same"]
      [] cls = "Child" -> [item |-> "Child.item", extra |-> "Child.extra"]

\* cls.__mro__ up to Entity
mro(cls) ==
    CASE cls = "Base" -> <<"Base">>
      [] cls = "Child" -> <<"Child", "Base">>
      [] cls = "A" -> <<"A">>
      [] cls = "B" -> <<"B", "A">>
      [] cls = "C" -> <<"C", "B", "A">>

\* The field objects that can be keys of the _fields of an instance.
FieldObjects(cls) ==
    UNION {{ClassDict(c)[a] : a \in DOMAIN ClassDict(c)} : c \in Range(mro(cls))}

\* The attributes of an instance that are fields.
FieldAttributes(cls) ==
    UNION {DOMAIN ClassDict(c) : c \in Range(mro(cls))}

RECURSIVE class_attribute(_, _)
\* type(instance).attr: the first class of the mro that defines it
class_attribute(classes, attr) ==
    IF attr \in DOMAIN ClassDict(Head(classes))
    THEN ClassDict(Head(classes))[attr]
    ELSE class_attribute(Tail(classes), attr)

\* self.preset_hook and self.postset_hook: None (FALSE) or record
preset_hook(f) == f \in {"Base.item", "Child.item", "Child.extra"}
postset_hook(f) == f \in {"Base.item", "Child.item", "Base.same"}

\* What record notes when it is called.
HookCall(hook, instance, f, value) ==
    [hook |-> hook, holds |-> instance.fields[f], value |-> value]

\* "if self.postset_hook: self.postset_hook(instance, value)" before the
\* store (the hook sees the old value twice)
postset_early(r, instance, f, value, calls) ==
    IF postset_hook(f)
    THEN [entity |-> r.entity, exc |-> NoExc,
          hooks |-> Append(calls, HookCall("postset_hook", instance, f, value))]
    ELSE [entity |-> r.entity, exc |-> NoExc, hooks |-> calls]

\* "if self.postset_hook: self.postset_hook(instance, value)" (lines
\* 217-218), r being the instance after the store
postset(r, instance, f, value, calls) ==
    IF postset_hook(f)
    THEN [entity |-> r.entity, exc |-> NoExc,
          hooks |-> Append(calls, HookCall("postset_hook", r.entity, f, value))]
    ELSE [entity |-> r.entity, exc |-> NoExc, hooks |-> calls]

\* "if self.preset_hook: self.preset_hook(instance, value)" (lines
\* 212-213): the calls made so far
preset(instance, f, value) ==
    IF preset_hook(f)
    THEN <<HookCall("preset_hook", instance, f, value)>>
    ELSE <<>>

\* Lines 212-218 of TypedField.__set__ for the value v that the cleaning
\* made: an exception of the cleaning leaves before any hook.
set_cleaned(instance, f, v) ==
    IF v.exc # NoExc THEN [entity |-> instance, exc |-> v.exc, hooks |-> <<>>]
    ELSE postset(store(instance, f, v), instance, f, v.value,
                 preset(instance, f, v.value))

\* TypedField.__set__ of a field with hooks
TypedField_set_hooked(instance, f, value) ==
    set_cleaned(instance, f, normalized(Field(f), value))

\* What callers assign to the fields of Base and Child.
HookedArgs == {PyNone, Construct("Bar", <<>>).value} \cup Texts

\* The program starts with one instance of Base or of Child.
InitFields ==
    /\ ns = EmptySet
    /\ ModulesInit
    /\ sub = NoSubset
    /\ last = Idle
    /\ \E cls \in HookedClasses :
          py = [ents |-> <<Entity(cls, [f \in FieldObjects(cls) |-> Absent])>>,
                held |-> Nothing, calls |-> 0]

\* instance.attr = value
SetAttribute ==
    /\ last.call = "none"
    /\ UNCHANGED <<ns, sub, modvars>>
    /\ \E slot \in DOMAIN py.ents :
          \E attr \in FieldAttributes(py.ents[slot].class),
             value \in HookedArgs :
              \E f \in {class_attribute(mro(py.ents[slot].class), attr)} :
                  \E r \in {TypedField_set_hooked(py.ents[slot], f, value)} :
                      /\ py' = [py EXCEPT !.ents[slot] = r.entity]
                      /\ last' = Call("__set__", <<slot, f, value>>, py,
                                      r.exc, r.hooks)

\* cls.__dict__[attr].__set__(instance, value) for a class of the mro:
\* the way to the field objects that a subclass hides
SetDescriptor ==
    /\ last.call = "none"
    /\ UNCHANGED <<ns, sub, modvars>>
    /\ \E slot \in DOMAIN py.ents :
          \E f \in FieldObjects(py.ents[slot].class), value \in HookedArgs :
              \E r \in {TypedField_set_hooked(py.ents[slot], f, value)} :
                  /\ py' = [py EXCEPT !.ents[slot] = r.entity]
                  /\ last' = Call("__set__", <<slot, f, value>>, py,
                                  r.exc, r.hooks)

\* "if not types: types = (TypedField,)"
UnsetTypes(types) == IF types = {} THEN {"TypedField"} ELSE types

\* fields.unset(instance, *types)
UnsetFields ==
    /\ last.call = "none"
    /\ UNCHANGED <<ns, sub, modvars>>
    /\ \E slot \in DOMAIN py.ents :
          \E types \in {{}, {"UnsetField"}, {"TypedField"}} :
              /\ py' = [py EXCEPT
                          !.ents[slot] = unset(@, UnsetTypes(types))]
              /\ last' = Call("unset", <<slot, types>>, py, NoExc, None)

NextFields ==
    \/ SetAttribute
    \/ SetDescriptor
    \/ UnsetFields
    \/ Return

SpecFields == InitFields /\ [][NextFields]_vars

\* ====================================================================
\* EntityList.  Two classes, the FooList of test_remove and one with a
\* field besides the multiple one:
\*   class FooList(EntityList):
\*       foos = TypedField("foo", type_=Foo, multiple=True)
\*   class FooBox(EntityList):
\*       foos = TypedField("Foo", type_=Foo, multiple=True)
\*       label = TypedField("Label")
\* The elements are entities of class Foo; no class of the model has an
\* EntityList for the type of a field.
\* ====================================================================
ListClasses == {"FooList", "FooBox"}

\* IndexError
IndexError(args) == [type |-> "IndexError", args |-> args]

\* EntityList._multiple_field: the one field of the class that is
\* multiple
multiple_field(cls) ==
    CHOOSE a \in Range(typed_fields(cls)) : Field(a).multiple

\* EntityList._dict_as_list
dict_as_list(cls) == Len(typed_fields(cls)) = 1

\* EntityList._inner: the __get__ of the multiple field
inner(entity) == get(entity, multiple_field(entity.class))

\* list.insert(idx, value): an idx beyond the end inserts at the end
list_insert(items, idx, value) ==
    IF idx >= Len(items) THEN Append(items, value)
    ELSE SubSeq(items, 1, idx) \o <<value>> \o SubSeq(items, idx + 1, Len(items))

\* "del list[idx]" for an idx within the list
list_delitem(items, idx) ==
    SubSeq(items, 1, idx) \o SubSeq(items, idx + 2, Len(items))

\* TypedList.insert
TypedList_insert(list, idx, value) ==
    IF value = PyNone THEN Returned(list)
    ELSE IF istypeof(list.type, value)
    THEN Returned([list EXCEPT !.items = list_insert(@, idx, value)])
    ELSE IF try_cast(list.type)
    THEN Then(Construct(list.type, <<value>>), LAMBDA c :
              Returned([list EXCEPT !.items = list_insert(@, idx, c)]))
    ELSE [value |-> list,
          exc |-> TypeError(<<"insert", list.type, TypeOf(value)>>)]

\* The entity g.entity with the list r in the place of its stored
\* collection, when the method of the collection returned r.
with_inner(g, r) ==
    IF r.exc # NoExc THEN [entity |-> g.entity, exc |-> r.exc]
    ELSE [entity |-> [g.entity EXCEPT
                         !.fields[multiple_field(g.entity.class)] = r.value],
          exc |-> NoExc]

\* EntityList.insert without "if not value: return"
EntityList_insert_any(g, idx, value) ==
    with_inner(g, TypedList_insert(g.value, idx, value))

\* An insert into a list of its own: the stored collection is as it was.
EntityList_insert_apart(entity, idx, value) ==
    IF ~Truthy(value) THEN [entity |-> entity, exc |-> NoExc]
    ELSE [entity |-> inner(entity).entity,
          exc |-> TypedList_insert(inner(entity).value, idx, value).exc]

\* EntityList.insert
EntityList_insert(entity, idx, value) ==
    IF ~Truthy(value) THEN [entity |-> entity, exc |-> NoExc]
    ELSE EntityList_insert_any(inner(entity), idx, value)

\* EntityList.__delitem__, g being what _inner gave
EntityList_delitem(g, idx) ==
    IF idx >= Len(g.value.items)
    THEN [entity |-> g.entity, exc |-> IndexError(<<idx>>)]
    ELSE with_inner(g, Returned([g.value EXCEPT
                                    !.items = list_delitem(@, idx)]))

\* EntityList.__getitem__, g being what _inner gave
EntityList_getitem(g, idx) ==
    IF idx >= Len(g.value.items)
    THEN [entity |-> g.entity, value |-> PyNone, exc |-> IndexError(<<idx>>)]
    ELSE [entity |-> g.entity, value |-> g.value.items[idx + 1],
          exc |-> NoExc]

\* EntityList.__len__, g being what _inner gave
EntityList_len(g) == [entity |-> g.entity, value |-> Len(g.value.items)]

\* EntityList.to_list: "[h.to_dict() for h in self]", g being what
\* _inner gave
to_list(g) ==
    [entity |-> g.entity,
     value |-> List([i \in 1..Len(g.value.items) |->
                        to_dict(g.value.items[i])])]

\* EntityList.to_dict
EntityList_to_dict(entity) ==
    IF dict_as_list(entity.class) THEN to_list(inner(entity))
    ELSE [entity |-> entity, value |-> to_dict(entity)]

RECURSIVE extend(_, _)
\* MutableSequence.extend of an EntityList: append, that is insert at the
\* end, every value
extend(r, values) ==
    IF r.exc # NoExc THEN [value |-> PyNone, exc |-> r.exc]
    ELSE IF values = <<>> THEN Returned(r.entity)
    ELSE extend(EntityList_insert(r.entity, Len(inner(r.entity).value.items),
                                  Head(values)),
                Tail(values))

\* EntityList.from_list: the transformer of the multiple field is its
\* type, whose from_dict takes no fallback_xsi_type
from_list(cls, seq) ==
    IF ~Truthy(seq) THEN Returned(PyNone)
    ELSE Then(from_dict_each(Field(multiple_field(cls)).type_, seq.items),
              LAMBDA transformed_list :
                  extend([entity |-> NewEntity(cls), exc |-> NoExc],
                         transformed_list))

\* EntityList.from_dict
EntityList_from_dict(cls, cls_dict) ==
    IF ~Truthy(cls_dict) THEN Returned(PyNone)
    ELSE IF dict_as_list(cls) THEN from_list(cls, cls_dict)
    ELSE from_dict(cls, cls_dict)

\* What callers insert: None, '', a string (cast to a Foo), and entities
\* of class Foo.
ListArgs ==
    {PyNone, Str(0), Str(1)}
        \cup {Construct("Foo", <<x>>).value : x \in {PyNone} \cup Texts}

\* The program starts with cls() for a class of ListClasses.
InitList ==
    /\ ns = EmptySet
    /\ ModulesInit
    /\ sub = NoSubset
    /\ last = Idle
    /\ \E cls \in ListClasses :
          py = [ents |-> <<NewEntity(cls)>>, held |-> Nothing, calls |-> 0]

\* entitylist.insert(idx, value)
ListInsert ==
    /\ last.call = "none"
    /\ UNCHANGED <<ns, sub, modvars>>
    /\ \E slot \in DOMAIN py.ents :
          /\ Len(inner(py.ents[slot]).value.items) < MaxList
          /\ \E idx \in 0..MaxList, value \in ListArgs :
                \E r \in {EntityList_insert(py.ents[slot], idx, value)} :
                    /\ py' = [py EXCEPT !.ents[slot] = r.entity]
                    /\ last' = Call("insert", <<slot, idx, value>>, py,
                                    r.exc, None)

\* del entitylist[idx]
ListDelItem ==
    /\ last.call = "none"
    /\ UNCHANGED <<ns, sub, modvars>>
    /\ \E slot \in DOMAIN py.ents, idx \in 0..MaxList :
          \E r \in {EntityList_delitem(inner(py.ents[slot]), idx)} :
              /\ py' = [py EXCEPT !.ents[slot] = r.entity]
              /\ last' = Call("__delitem__", <<slot, idx>>, py, r.exc, None)

\* entitylist[idx]
ListGetItem ==
    /\ last.call = "none"
    /\ UNCHANGED <<ns, sub, modvars>>
    /\ \E slot \in DOMAIN py.ents, idx \in 0..MaxList :
          \E r \in {EntityList_getitem(inner(py.ents[slot]), idx)} :
              /\ py' = [py EXCEPT !.ents[slot] = r.entity]
              /\ last' = Call("__getitem__", <<slot, idx>>, py, r.exc,
                              r.value)

\* len(entitylist)
ListLen ==
    /\ last.call = "none"
    /\ UNCHANGED <<ns, sub, modvars>>
    /\ \E slot \in DOMAIN py.ents :
          \E r \in {EntityList_len(inner(py.ents[slot]))} :
              /\ py' = [py EXCEPT !.ents[slot] = r.entity]
              /\ last' = Call("__len__", <<slot>>, py, NoExc, r.value)

\* entitylist.label = value, for the class that has the field
SetLabel ==
    /\ last.call = "none"
    /\ UNCHANGED <<ns, sub, modvars>>
    /\ \E slot \in DOMAIN py.ents, value \in {PyNone} \cup Texts :
          /\ "FooBox.label" \in DOMAIN py.ents[slot].fields
          /\ \E r \in {set(py.ents[slot], "FooBox.label", value)} :
                /\ py' = [py EXCEPT !.ents[slot] = r.entity]
                /\ last' = Call("__set__", <<slot, "FooBox.label", value>>,
                                py, r.exc, None)

\* entitylist.to_dict()
ListToDict ==
    /\ last.call = "none"
    /\ UNCHANGED <<ns, sub, modvars>>
    /\ \E slot \in DOMAIN py.ents :
          \E r \in {EntityList_to_dict(py.ents[slot])} :
              /\ py' = [py EXCEPT !.ents[slot] = r.entity]
              /\ last' = Call("to_dict", <<slot>>, py, NoExc, r.value)

\* cls.from_dict(entitylist.to_dict()): the call returns the dict and
\* what from_dict made of it.
ListRoundTrip ==
    /\ last.call = "none"
    /\ UNCHANGED <<ns, sub, modvars>>
    /\ \E slot \in DOMAIN py.ents :
          \E d \in {EntityList_to_dict(py.ents[slot])} :
              \E r \in {EntityList_from_dict(py.ents[slot].class, d.value)} :
                  /\ py' = [py EXCEPT !.ents[slot] = d.entity]
                  /\ last' = Call("from_dict", <<slot, d.value>>, py, r.exc,
                                  r.value)

NextList ==
    \/ ListInsert
    \/ ListDelItem
    \/ ListGetItem
    \/ ListLen
    \/ SetLabel
    \/ ListToDict
    \/ ListRoundTrip
    \/ Return

SpecList == InitList /\ [][NextList]_vars

\* ====================================================================
\* signals: connect, disconnect and emit on the module-level __receivers.
\* A receiver of the model notes that it was invoked and does nothing
\* else; emit returns to the caller of the model the receivers that it
\* invoked, in order.
\* ====================================================================

\* __is_dead(ref), for the reference to the callable r
is_dead(m, r) == r \notin m.alive

\* __purge: the dict is made anew with the keys it has and, for each, the
\* references that are not dead
purge(m) ==
    [m EXCEPT !.receivers =
        [s \in Signals |-> SelectSeq(m.receivers[s],
                                      LAMBDA r : ~is_dead(m, r))]]

\* connect (of a callable): "__receivers[signal].append(ref(receiver))"
\* after __purge; the defaultdict makes the list of a new signal
connect(m, signal, receiver) ==
    [purge(m) EXCEPT !.keys = @ \cup {signal},
                     !.receivers[signal] = Append(@, receiver)]

\* The index (from 1) of the first reference of the list that refers to
\* the receiver, 0 when there is none: the loop of disconnect, which
\* compares __make_id of the two.
first_index(receivers, receiver) ==
    IF receiver \in Range(receivers)
    THEN CHOOSE idx \in 1..Len(receivers) :
             /\ receivers[idx] = receiver
             /\ \A j \in 1..(idx - 1) : receivers[j] # receiver
    ELSE 0

\* "del receivers[idx]; return True", or "return False" for idx = 0;
\* m is the module after __purge
disconnect_at(m, signal, idx) ==
    IF idx = 0 THEN [signals |-> m, ret |-> FALSE, exc |-> NoExc]
    ELSE [signals |-> [m EXCEPT !.receivers[signal] =
                          SubSeq(@, 1, idx - 1) \o SubSeq(@, idx + 1, Len(@))],
          ret |-> TRUE, exc |-> NoExc]

\* disconnect: "receivers = __receivers.get(signal)" is None for a signal
\* that is no key, and len(None) raises a TypeError
disconnect(m, signal, receiver) ==
    IF signal \notin m.keys
    THEN [signals |-> purge(m), ret |-> FALSE,
          exc |-> TypeError(<<"len", "NoneType">>)]
    ELSE disconnect_at(purge(m), signal,
                       first_index(purge(m).receivers[signal], receiver))

\* emit: nothing for a signal that is no key; otherwise __live_receivers
\* (after __purge) are invoked in order
emit(m, signal) ==
    IF signal \notin m.keys THEN [signals |-> m, invoked |-> <<>>]
    ELSE [signals |-> purge(m), invoked |-> purge(m).receivers[signal]]

\* The program and the modules before any call on signals.
InitSignals ==
    /\ ns = EmptySet
    /\ ModulesInit
    /\ sub = NoSubset
    /\ last = Idle
    /\ py = NoEntities

\* signals.connect(signal, receiver)
Connect ==
    /\ last.call = "none"
    /\ UNCHANGED <<ns, sub, py, cache, collector>>
    /\ \E signal \in Signals, receiver \in signals.alive :
          /\ Len(signals.receivers[signal]) < MaxConnected
          /\ signals' = connect(signals, signal, receiver)
          /\ last' = Call("connect", <<signal, receiver>>, signals, NoExc,
                          None)

\* signals.disconnect(signal, receiver)
Disconnect ==
    /\ last.call = "none"
    /\ UNCHANGED <<ns, sub, py, cache, collector>>
    /\ \E signal \in Signals, receiver \in signals.alive :
          \E r \in {disconnect(signals, signal, receiver)} :
              /\ signals' = r.signals
              /\ last' = Call("disconnect", <<signal, receiver>>, signals,
                              r.exc, r.ret)

\* signals.emit(signal)
Emit ==
    /\ last.call = "none"
    /\ UNCHANGED <<ns, sub, py, cache, collector>>
    /\ \E signal \in Signals :
          \E r \in {emit(signals, signal)} :
              /\ signals' = r.signals
              /\ last' = Call("emit", <<signal>>, signals, NoExc, r.invoked)

\* The program drops its last reference to a callable, which is
\* garbage-collected: the weak references to it are dead from now on.
Collected ==
    /\ last.call = "none"
    /\ UNCHANGED <<ns, sub, py, last, cache, collector>>
    /\ \E receiver \in signals.alive :
          signals' = [signals EXCEPT !.alive = @ \ {receiver}]

NextSignals ==
    \/ Connect
    \/ Disconnect
    \/ Emit
    \/ Collected
    \/ Return

SpecSignals == InitSignals /\ [][NextSignals]_vars

\* ====================================================================
\* cache: the module-level _CACHE and the objects of a class that mixes
\* Cached in (as the Foo of the tests, without __eq__ or __hash__ of its
\* own).
\* ====================================================================
CacheMiss(args) == [type |-> "CacheMiss", args |-> args]
MultipleCached(args) == [type |-> "MultipleCached", args |-> args]

\* cache.getall(key) without criteria, the list taken for a set
getall(c, key) == IF key \notin c.keys THEN {} ELSE c.items[key]

\* cache._assert_single and "return cached[0]" of get
single(cached, key) ==
    IF Cardinality(cached) = 1
    THEN [ret |-> CHOOSE o \in cached : TRUE, exc |-> NoExc]
    ELSE IF cached = {} THEN [ret |-> None, exc |-> CacheMiss(<<key>>)]
    ELSE [ret |-> None, exc |-> MultipleCached(<<key>>)]

\* cache.get(key), and Cached.get(id) for objects of one class
get_cached(c, key) == single(getall(c, key), key)

\* "if not cached: del _CACHE[key]"
del_if_empty(c, key) ==
    IF c.items[key] = {} THEN [c EXCEPT !.keys = @ \ {key}] ELSE c

\* cache.remove that removes nothing
remove_nothing(c, key, item) == c

\* cache.remove
remove(c, key, item) ==
    IF key \notin c.keys THEN c
    ELSE del_if_empty([c EXCEPT !.items[key] = @ \ {item}], key)

\* cache.add
add(c, key, item) ==
    [c EXCEPT !.keys = @ \cup {key}, !.items[key] = @ \cup {item}]

\* cache.update
update(c, item, old, new) == add(remove(c, old, item), new, item)

\* "prev = getattr(self, key, None)"
prev(c, item) == IF c.id_[item] = NoAttribute THEN None ELSE c.id_[item]

\* Cached.__setattr__ for the key id_
setattr_id(c, item, value) ==
    update([c EXCEPT !.id_[item] = value], item, prev(c, item), value)

\* The program and the modules before any call on the cache.
InitCache ==
    /\ ns = EmptySet
    /\ ModulesInit
    /\ sub = NoSubset
    /\ last = Idle
    /\ py = NoEntities

\* item.id_ = value
SetId ==
    /\ last.call = "none"
    /\ UNCHANGED <<ns, sub, py, signals, collector>>
    /\ \E item \in cache.alive, value \in CacheKeys \cup {None} :
          /\ cache' = setattr_id(cache, item, value)
          /\ last' = Call("__setattr__", <<item, value>>, cache, NoExc, None)

\* cache.getall(key)
GetAll ==
    /\ last.call = "none"
    /\ UNCHANGED <<ns, sub, py, modvars>>
    /\ \E key \in CacheKeys \cup {None} :
          last' = Call("getall", <<key>>, cache, NoExc, getall(cache, key))

\* cache.get(key)
Get ==
    /\ last.call = "none"
    /\ UNCHANGED <<ns, sub, py, modvars>>
    /\ \E key \in CacheKeys \cup {None} :
          \E r \in {get_cached(cache, key)} :
              last' = Call("get", <<key>>, cache, r.exc, r.ret)

\* The program drops its last reference to an object, which is
\* garbage-collected: the WeakSets no longer hold it.
CollectedObject ==
    /\ last.call = "none"
    /\ UNCHANGED <<ns, sub, py, signals, last, collector>>
    /\ \E item \in cache.alive :
          cache' = [cache EXCEPT
                       !.alive = @ \ {item},
                       !.items = [k \in DOMAIN @ |-> @[k] \ {item}]]

NextCache ==
    \/ SetId
    \/ GetAll
    \/ Get
    \/ CollectedObject
    \/ Return

SpecCache == InitCache /\ [][NextCache]_vars

\* ================================================================ claims
\* The uri a prefix is bound to in s (None when it is bound to none):
\* namespace_for_prefix
namespace_for_prefix(s, prefix) ==
    IF ~InPrefixMap(s, prefix) THEN None
    ELSE s.heap[s.prefix_map[prefix]].uri

\* C1: after any sequence of NamespaceSet operations on an initially empty
\* set, import_from and the calls that end in an error included,
\* is_valid() returns True.
C1_IsValidAlways == is_valid(ns)

\* C1 witness: an import_from that raised after it had already changed
\* the set.
C1_Witness ==
    /\ last.call = "import_from"
    /\ last.exc.type = "DuplicatePrefixError"
    /\ ns # last.pre

\* C2: when add_namespace_uri raises DuplicatePrefixError or
\* ConflictingSchemaLocationError the set is exactly what it was before
\* the call.
C2_AddNamespaceUriExceptionSafe ==
    (/\ last.call = "add_namespace_uri"
     /\ last.exc.type \in {"DuplicatePrefixError",
                           "ConflictingSchemaLocationError"})
        => ns = last.pre

\* C2 witness: the uri exists, the prefix is new and acceptable, only the
\* schema location conflicts, and the prefix is not registered afterwards.
C2_Witness ==
    /\ last.call = "add_namespace_uri"
    /\ last.exc.type = "ConflictingSchemaLocationError"
    /\ contains_namespace(last.pre, last.params[1])
    /\ last.params[2] # None
    /\ ~InPrefixMap(last.pre, last.params[2])
    /\ ~InPrefixMap(ns, last.params[2])

\* C3: when import_from raises DuplicatePrefixError the receiving set is
\* exactly what it was before the call.
C3_ImportFromExceptionSafe ==
    (/\ last.call = "import_from"
     /\ last.exc.type = "DuplicatePrefixError")
        => ns = last.pre

\* C4: when prefix p is bound to uri u1, add_namespace_uri(u2, p) with
\* u2 # u1 (u2 new or in the set) and add_prefix(u2, p) (u2 in the set)
\* raise DuplicatePrefixError(p, u1, u2); and no prefix is in the prefix
\* sets of two uris.
C4_DuplicatePrefixDetected ==
    /\ (/\ last.call \in {"add_namespace_uri", "add_prefix"}
        /\ last.call = "add_prefix" => contains_namespace(last.pre, last.params[1])
        /\ last.params[2] # None
        /\ namespace_for_prefix(last.pre, last.params[2]) \notin
               {None, last.params[1]})
           => last.exc = DuplicatePrefixError(
                             last.params[2],
                             namespace_for_prefix(last.pre, last.params[2]),
                             last.params[1])
    /\ \A u1, u2 \in namespace_uris(ns) :
          u1 # u2 => Range(lookup_uri(ns, u1).prefixes)
                         \cap Range(lookup_uri(ns, u2).prefixes) = {}

\* C4 witness: add_namespace_uri on a uri of the set, with a prefix bound
\* to another uri, raised.
C4_Witness ==
    /\ last.call = "add_namespace_uri"
    /\ contains_namespace(last.pre, last.params[1])
    /\ last.exc.type = "DuplicatePrefixError"

\* The uris get_xmlns_string iterates over, in the order of the iteration,
\* for the parameters of the last call.
XmlnsOrder == IF last.params[2] THEN Sorted(last.params[1]) ELSE last.params[1]

\* The last call was a get_xmlns_string over uris of the set.
XmlnsOverSet ==
    /\ last.call = "get_xmlns_string"
    /\ Range(last.params[1]) \subseteq namespace_uris(ns)

\* The positions of XmlnsOrder whose namespace prefers to be the default.
PreferDefault ==
    {i \in 1..Len(XmlnsOrder) :
        lookup_uri(ns, XmlnsOrder[i]).preferred_prefix = None}

\* C5: in the string get_xmlns_string returns, at most one declaration is
\* un-prefixed; it is that of the first namespace, in iteration order,
\* whose preferred prefix is None; every later such namespace is declared
\* with a prefix (in preferred-only mode, the first of its prefix set).
C5_OneDefaultNamespace ==
    (XmlnsOverSet /\ last.exc = NoExc) =>
        LET decls == last.ret
            unprefixed == {k \in 1..Len(decls) : decls[k].prefix = None}
        IN  /\ Cardinality(unprefixed) <= 1
            /\ \A k \in unprefixed :
                  /\ PreferDefault # {}
                  /\ \A i \in PreferDefault :
                        (\A j \in PreferDefault : i <= j)
                            => decls[k].uri = XmlnsOrder[i]
            /\ \A i, j \in PreferDefault :
                  i < j =>
                     LET ni == lookup_uri(ns, XmlnsOrder[j])
                     IN  /\ \E k \in 1..Len(decls) :
                               /\ decls[k].uri = XmlnsOrder[j]
                               /\ decls[k].prefix # None
                         /\ last.params[3] =>
                               \E k \in 1..Len(decls) :
                                  decls[k] = Xmlns(Head(ni.prefixes),
                                                   XmlnsOrder[j])
                         /\ \A k \in unprefixed :
                               decls[k].uri # XmlnsOrder[j]

\* C5 witness: a string was returned, in preferred-only mode, for two
\* namespaces that both prefer to be the default.
C5_Witness ==
    /\ XmlnsOverSet
    /\ last.exc = NoExc
    /\ last.params[3]
    /\ Cardinality(PreferDefault) >= 2

\* A namespace with no prefix that prefers to be the default comes, in
\* iteration order, after another that prefers to be the default.
SecondDefaultWithoutPrefix ==
    \E i, j \in PreferDefault :
        /\ i < j
        /\ lookup_uri(ns, XmlnsOrder[j]).prefixes = <<>>

\* C6: get_xmlns_string over uris of the set raises
\* TooManyDefaultNamespacesError exactly when a namespace that prefers to
\* be the default and has no prefix comes after another that prefers to be
\* the default; otherwise it returns a string.
C6_TooManyDefaultsIff ==
    XmlnsOverSet =>
        IF SecondDefaultWithoutPrefix
        THEN last.exc.type = "TooManyDefaultNamespacesError"
        ELSE last.exc = NoExc

\* C6 witness: the error was raised in the mode that declares every
\* prefix.
C6_Witness ==
    /\ XmlnsOverSet
    /\ ~last.params[3]
    /\ last.exc.type = "TooManyDefaultNamespacesError"

\* The last call was an add_namespace_uri on a uri of the set, and it
\* returned.
MergeReturned ==
    /\ last.call = "add_namespace_uri"
    /\ contains_namespace(last.pre, last.params[1])
    /\ last.exc = NoExc

\* What C7 says of the prefixes: a non-None prefix is added to the uri's
\* prefix set and the preferred prefix is not modified.
C7_Prefixes ==
    LET ns_uri == last.params[1]
        prefix == last.params[2]
        old == lookup_uri(last.pre, ns_uri)
    IN  /\ contains_namespace(ns, ns_uri)
        /\ Range(lookup_uri(ns, ns_uri).prefixes) =
               Range(old.prefixes) \cup ({prefix} \ {None})
        /\ Len(lookup_uri(ns, ns_uri).prefixes) =
               Cardinality(Range(lookup_uri(ns, ns_uri).prefixes))
        /\ prefix # None => namespace_for_prefix(ns, prefix) = ns_uri
        /\ lookup_uri(ns, ns_uri).preferred_prefix = old.preferred_prefix

\* C7: a successful add_namespace_uri on a uri of the set is a merge: a
\* non-None prefix is added to the uri's prefix set, the preferred prefix
\* is not modified, an existing schema location is kept when none comes
\* in, and the incoming schema location is adopted when none was set.  A
\* schema location is a non-empty string: the empty string stands for
\* "none" as None does (the module's own Namespace constants are written
\* with ''), so with none set and none coming in, none is set afterwards.
C7_AddNamespaceUriMerges ==
    MergeReturned =>
        LET old == lookup_uri(last.pre, last.params[1])
            new == lookup_uri(ns, last.params[1])
        IN  /\ C7_Prefixes
            /\ ~Falsy(old.schema_location) =>
                   new.schema_location = old.schema_location
            /\ (Falsy(old.schema_location) /\ ~Falsy(last.params[3])) =>
                   new.schema_location = last.params[3]
            /\ (Falsy(old.schema_location) /\ Falsy(last.params[3])) =>
                   Falsy(new.schema_location)

\* C7 witness: the example of the claim, ("a:b:c", "abc", "locA") followed
\* by ("a:b:c", "abc2"), with uri 1, prefixes 1 and 2, location 1.
C7_Witness ==
    /\ last.call = "add_namespace_uri"
    /\ last.params = <<1, 2, None>>
    /\ last.exc = NoExc
    /\ contains_namespace(last.pre, 1)
    /\ lookup_uri(last.pre, 1) = NamespaceInfo(1, 1, 1)
    /\ lookup_uri(ns, 1) = [uri |-> 1, schema_location |-> 1,
                            prefixes |-> <<1, 2>>, preferred_prefix |-> 1]

\* C8: after a successful add_namespace_uri, the same call again succeeds
\* and leaves the number of namespaces and all the contents as they are.
C8_AddNamespaceUriIdempotent ==
    (last.call = "add_namespace_uri" /\ last.exc = NoExc)
        => LET again == add_namespace_uri(ns, last.params[1], last.params[2],
                                          last.params[3])
           IN  /\ again.exc = NoExc
               /\ Cardinality(namespace_uris(again.ns)) =
                      Cardinality(namespace_uris(ns))
               /\ Normalize(again.ns) = ns

\* C8 witness: a first call that succeeded as a merge and changed the set.
C8_Witness ==
    /\ last.call = "add_namespace_uri"
    /\ last.exc = NoExc
    /\ contains_namespace(last.pre, last.params[1])
    /\ last.params[2] # None
    /\ last.params[3] # None
    /\ ns # last.pre

\* The last call was the map method op.
MapCall(op) == last.call = op

\* Some uri of the set has no registered prefix.
SomeUriWithoutPrefix ==
    \E u \in namespace_uris(ns) : lookup_uri(ns, u).prefixes = <<>>

\* The prefix p is one the maps may give to the uri u: the preferred one
\* or, when that is None, a registered one.
MayMap(u, p) ==
    LET ni == lookup_uri(ns, u)
    IN  IF ni.preferred_prefix # None THEN p = ni.preferred_prefix
        ELSE p \in Range(ni.prefixes)

\* C9: get_uri_prefix_map and get_prefix_uri_map return one entry per uri
\* of the set, with the uri's preferred prefix if it is not None and
\* otherwise one of its registered prefixes; if a uri of the set has no
\* registered prefix both raise NoPrefixesError.
C9_PrefixMaps ==
    /\ MapCall("get_uri_prefix_map") =>
          IF SomeUriWithoutPrefix
          THEN last.exc.type = "NoPrefixesError"
          ELSE /\ last.exc = NoExc
               /\ \A u \in AllUris :
                     IF u \in namespace_uris(ns)
                     THEN last.ret[u] # 0 /\ MayMap(u, last.ret[u])
                     ELSE last.ret[u] = 0
    /\ MapCall("get_prefix_uri_map") =>
          IF SomeUriWithoutPrefix
          THEN last.exc.type = "NoPrefixesError"
          ELSE /\ last.exc = NoExc
               /\ \A u \in namespace_uris(ns) :
                     Cardinality({p \in Prefixes : last.ret[p] = u}) = 1
               /\ \A p \in Prefixes :
                     last.ret[p] # 0 =>
                        /\ last.ret[p] \in namespace_uris(ns)
                        /\ MayMap(last.ret[p], p)

\* C9 witness: get_prefix_uri_map returned a map for a set with a uri
\* whose preferred prefix is not the first of its prefixes.
C9_Witness ==
    /\ MapCall("get_prefix_uri_map")
    /\ last.exc = NoExc
    /\ \E v \in namespace_uris(ns) :
          /\ lookup_uri(ns, v).preferred_prefix # None
          /\ lookup_uri(ns, v).preferred_prefix # Head(lookup_uri(ns, v).prefixes)

\* The last call was set_preferred_prefix_for_namespace on a uri of the
\* set.
SetPreferredOnSet ==
    /\ last.call = "set_preferred_prefix_for_namespace"
    /\ contains_namespace(last.pre, last.params[1])

\* What C10 says of the calls with None, with a member prefix, and with a
\* non-member prefix and add_if_not_exist false.
C10_Common ==
    LET ns_uri == last.params[1]
        prefix == last.params[2]
        add_if_not_exist == last.params[3]
        old == lookup_uri(last.pre, ns_uri)
        new == lookup_uri(ns, ns_uri)
    IN  /\ prefix = None =>
              /\ last.exc = NoExc
              /\ new.preferred_prefix = None
              /\ new.prefixes = old.prefixes
        /\ (prefix # None /\ prefix \in Range(old.prefixes)) =>
              /\ last.exc = NoExc
              /\ new.preferred_prefix = prefix
              /\ new.prefixes = old.prefixes
        /\ (prefix # None /\ prefix \notin Range(old.prefixes)
               /\ ~add_if_not_exist) =>
              /\ last.exc = PrefixNotFoundError(prefix)
              /\ ns = last.pre

\* The call is one with a non-member prefix and add_if_not_exist true.
C10_AddCase ==
    /\ SetPreferredOnSet
    /\ last.params[2] # None
    /\ last.params[2] \notin Range(lookup_uri(last.pre, last.params[1]).prefixes)
    /\ last.params[3]

\* The prefix was added to the uri's prefix set and made preferred.
C10_AddedAndPreferred ==
    /\ last.exc = NoExc
    /\ lookup_uri(ns, last.params[1]).prefixes =
           Append(lookup_uri(last.pre, last.params[1]).prefixes, last.params[2])
    /\ lookup_uri(ns, last.params[1]).preferred_prefix = last.params[2]
    /\ namespace_for_prefix(ns, last.params[2]) = last.params[1]

\* C10 as stated: with a non-member prefix and add_if_not_exist true the
\* prefix is always added and made preferred.
C10_Original ==
    SetPreferredOnSet =>
        /\ C10_Common
        /\ C10_AddCase => C10_AddedAndPreferred

\* C10 amended: with a non-member prefix and add_if_not_exist true the
\* prefix is added and made preferred unless it is bound to another uri;
\* then DuplicatePrefixError is raised and nothing changes.
C10_SetPreferredPrefix ==
    SetPreferredOnSet =>
        /\ C10_Common
        /\ C10_AddCase =>
              IF namespace_for_prefix(last.pre, last.params[2]) = None
              THEN C10_AddedAndPreferred
              ELSE /\ last.exc = DuplicatePrefixError(
                                     last.params[2],
                                     namespace_for_prefix(last.pre,
                                                          last.params[2]),
                                     last.params[1])
                   /\ ns = last.pre

\* C10 witness: add_if_not_exist was true and the prefix was bound to
\* another uri.
C10_Witness ==
    /\ C10_AddCase
    /\ namespace_for_prefix(last.pre, last.params[2]) # None
    /\ last.exc.type = "DuplicatePrefixError"

\* The last call was set_schema_location on a uri of the set.
SetSchemaLocationOnSet ==
    /\ last.call = "set_schema_location"
    /\ contains_namespace(last.pre, last.params[1])

\* C11: set_schema_location(uri, value, replace) on a uri of the set
\* stores value when replace is true or when the stored location is None;
\* stores None when value is None, without error, whatever replace is;
\* otherwise (replace false, stored location and value both not None)
\* it raises ConflictingSchemaLocationError(uri, stored, value) when the
\* two differ, and the set is unchanged.  Nothing but the schema location
\* of uri ever changes.
C11_SetSchemaLocation ==
    SetSchemaLocationOnSet =>
        LET ns_uri == last.params[1]
            value == last.params[2]
            replace == last.params[3]
            old == lookup_uri(last.pre, ns_uri)
            new == lookup_uri(ns, ns_uri)
        IN  /\ (replace \/ old.schema_location = None) =>
                   /\ last.exc = NoExc
                   /\ new.schema_location = value
            /\ value = None =>
                   /\ last.exc = NoExc
                   /\ new.schema_location = None
            /\ (~replace /\ old.schema_location # None /\ value # None
                   /\ value # old.schema_location) =>
                   /\ last.exc = ConflictingSchemaLocationError(
                                     ns_uri, old.schema_location, value)
                   /\ ns = last.pre
            /\ (~replace /\ value = old.schema_location) =>
                   /\ last.exc = NoExc
                   /\ ns = last.pre
            /\ ns = [last.pre EXCEPT
                        !.heap[last.pre.ns_uri_map[ns_uri]].schema_location =
                            new.schema_location]

\* C11 witness: a location was stored, replace was false, and a different
\* location was refused.
C11_Witness ==
    /\ SetSchemaLocationOnSet
    /\ last.params[2] \in Locs
    /\ lookup_uri(last.pre, last.params[1]).schema_location \in Locs
    /\ last.exc.type = "ConflictingSchemaLocationError"
    /\ ns = last.pre

\* The last call was remove_prefix on a prefix registered in the set.
RemovePrefixRegistered ==
    /\ last.call = "remove_prefix"
    /\ InPrefixMap(last.pre, last.params[1])

\* C12: remove_prefix(p) on a registered prefix removes p from the prefix
\* set of its namespace (the other prefixes keep their order) and from the
\* prefix map; if p was the preferred prefix, the preferred prefix becomes
\* one of the remaining prefixes of that namespace, or None when none
\* remain; if p was not preferred, the preferred prefix is unchanged; and
\* nothing else in the set changes.  On a prefix that is not registered the
\* call returns and changes nothing.  It never raises.
C12_RemovePrefix ==
    last.call = "remove_prefix" =>
        LET prefix == last.params[1]
        IN  /\ last.exc = NoExc
            /\ ~InPrefixMap(last.pre, prefix) => ns = last.pre
            /\ InPrefixMap(last.pre, prefix) =>
                  LET id == last.pre.prefix_map[prefix]
                      old == last.pre.heap[id]
                      new == ns.heap[id]
                  IN  /\ ~InPrefixMap(ns, prefix)
                      /\ prefix \notin Range(new.prefixes)
                      /\ new.prefixes = Without(old.prefixes, prefix)
                      /\ old.preferred_prefix = prefix =>
                            IF new.prefixes = <<>>
                            THEN new.preferred_prefix = None
                            ELSE new.preferred_prefix \in Range(new.prefixes)
                      /\ old.preferred_prefix # prefix =>
                            new.preferred_prefix = old.preferred_prefix
                      /\ ns = [last.pre EXCEPT
                                  !.prefix_map[prefix] = 0,
                                  !.heap[id].prefixes = new.prefixes,
                                  !.heap[id].preferred_prefix = new.preferred_prefix]

\* A preferred prefix was removed and another prefix of the namespace took
\* its place.
C12_Witness ==
    /\ RemovePrefixRegistered
    /\ LET id == last.pre.prefix_map[last.params[1]]
       IN  /\ last.pre.heap[id].preferred_prefix = last.params[1]
           /\ ns.heap[id].preferred_prefix \in Prefixes
           /\ ns.heap[id].preferred_prefix # last.params[1]

\* The last call was made while a subset lived beside the set, and was not
\* the call of subset itself.
CallBesideSubset ==
    /\ "on" \in DOMAIN last
    /\ last.call # "subset"
    /\ last.sub_pre.present

\* C13: subset(uris) raises NamespaceNotFoundError for the first requested
\* uri that is not in the set; otherwise it returns a new NamespaceSet that
\* holds exactly the requested uris, each with a uri, prefix set, preferred
\* prefix and schema location equal to the source's, in objects of its own,
\* and that binds exactly their prefixes; the source is unchanged by the
\* call.  Afterwards the two sets share no object, a mutating call on the
\* subset leaves the source as it was, and a mutating call on the source
\* leaves the subset as it was.
C13_Subset ==
    /\ last.call = "subset" =>
          LET ns_uris == last.params[1]
              missing == {i \in 1..Len(ns_uris) :
                             ~contains_namespace(last.pre, ns_uris[i])}
          IN  /\ SetValue(ns) = SetValue(last.pre)
              /\ missing # {} =>
                    /\ ~sub.present
                    /\ \E i \in missing :
                          /\ \A j \in missing : i <= j
                          /\ last.exc = NamespaceNotFoundError(ns_uris[i])
              /\ missing = {} =>
                    /\ last.exc = NoExc
                    /\ sub.present
                    /\ namespace_uris(SubsetView) = Range(ns_uris)
                    /\ \A u \in Range(ns_uris) :
                          /\ lookup_uri(SubsetView, u) = lookup_uri(last.pre, u)
                          /\ sub.ns_uri_map[u] # ns.ns_uri_map[u]
                          /\ \A p \in Range(lookup_uri(last.pre, u).prefixes) :
                                sub.prefix_map[p] = sub.ns_uri_map[u]
                    /\ \A p \in DOMAIN sub.prefix_map :
                          sub.prefix_map[p] # 0 =>
                              \E u \in Range(ns_uris) :
                                  p \in Range(lookup_uri(last.pre, u).prefixes)
    /\ sub.present => Referenced(ns) \cap Referenced(SubsetView) = {}
    /\ CallBesideSubset =>
          IF last.on = "subset"
          THEN SetValue(ns) = SetValue(last.pre)
          ELSE SetValue(SubsetView) =
                   SetValue(SetOver(last.pre.heap, last.sub_pre))

\* The second of two calls on a subset that holds a namespace of its source
\* changed the subset.
C13_Witness ==
    /\ CallBesideSubset
    /\ last.on = "subset"
    /\ sub.calls = MaxAfterSubset
    /\ namespace_uris(SubsetView) \cap namespace_uris(ns) # {}
    /\ SetValue(SubsetView) # SetValue(SetOver(last.pre.heap, last.sub_pre))

\* The last call was an import_from that returned.
ImportFromReturned ==
    /\ last.call = "import_from"
    /\ last.exc = NoExc

\* The prefixes bound to the uri u in the prefix map of s.
BoundTo(s, u) == {p \in Prefixes : namespace_for_prefix(s, p) = u}

\* C14: after a successful import_from(other, replace) the receiver holds
\* its former uris and those of other.  A uri of other that the receiver
\* lacked has an info equal to other's (uri, prefix set, preferred prefix,
\* schema location).  A uri of both sets keeps the receiver's info when
\* replace is false, and has an info equal to other's when replace is true:
\* the former prefixes are no longer bound and the schema location is
\* other's, None included.  A uri of the receiver alone keeps its info.  The
\* prefix map binds to each uri exactly the prefixes of its info, and other
\* holds after the call what it held before.
C14_ImportFrom ==
    ImportFromReturned =>
        LET other == last.params[1]
            replace == last.params[3]
            theirs == namespace_uris(other)
            ours == namespace_uris(last.pre)
        IN  /\ namespace_uris(ns) = ours \cup theirs
            /\ \A u \in theirs \ ours :
                  lookup_uri(ns, u) = lookup_uri(other, u)
            /\ \A u \in theirs \cap ours :
                  lookup_uri(ns, u) = IF replace THEN lookup_uri(other, u)
                                      ELSE lookup_uri(last.pre, u)
            /\ \A u \in ours \ theirs :
                  lookup_uri(ns, u) = lookup_uri(last.pre, u)
            /\ \A u \in namespace_uris(ns) :
                  BoundTo(ns, u) = Range(lookup_uri(ns, u).prefixes)
            /\ last.ret = other

\* A replacing import put an info without a schema location and with
\* another prefix in the place of one that had a schema location.
C14_Witness ==
    /\ ImportFromReturned
    /\ last.params[3]
    /\ \E u \in namespace_uris(last.pre) \cap namespace_uris(last.params[1]) :
          LET mine == lookup_uri(last.pre, u)
              their == lookup_uri(last.params[1], u)
          IN  /\ mine.schema_location \in Locs
              /\ their.schema_location = None
              /\ mine.prefixes # <<>>
              /\ their.prefixes # <<>>
              /\ Range(mine.prefixes) \cap Range(their.prefixes) = {}
              /\ lookup_uri(ns, u) = their
    /\ namespace_uris(last.params[1]) \ namespace_uris(last.pre) # {}

\* The entity that the last call on an entity was made on, before the call.
Receiver == last.pre.ents[last.params[1]]

RECURSIVE OnlyComparable(_)
\* Every value of the entity is held in a comparable field of a class that
\* has comparable fields, and so on for the entities it holds.
OnlyComparable(value) ==
    CASE value.t = "Entity" ->
           /\ Comparable(typed_fields(value.class)) # <<>>
           /\ \A a \in DOMAIN value.fields :
                 IF Field(a).comparable
                 THEN value.fields[a] = Absent
                          \/ OnlyComparable(value.fields[a])
                 ELSE value.fields[a] \in {Absent, PyNone}
      [] value.t \in {"list", "TypedList", "tuple"} ->
           \A i \in 1..Len(value.items) : OnlyComparable(value.items[i])
      [] OTHER -> TRUE

\* The round trips that equality by value passes: no list of entities (a
\* TypedList) is compared, and the entity does not hold an id next to an
\* idref (from_dict sets one after the other, and the second clears the
\* first) or a list with a None appended to it (__set__ drops it).
RoundTripOfPlainFields ==
    (/\ last.call = "round_trip"
     /\ OnlyComparable(Receiver)
     /\ \A a \in DOMAIN Receiver.fields :
           /\ ~(Field(a).multiple /\ Field(a).type_ # NoClass)
           /\ Receiver.fields[a].t = "list" =>
                 \A i \in 1..Len(Receiver.fields[a].items) :
                    Receiver.fields[a].items[i] # PyNone
           /\ Field(a).kind # "TypedField" =>
                 \A b \in DOMAIN Receiver.fields \ {a} :
                    Receiver.fields[a] \in {Absent, PyNone}
                        \/ Receiver.fields[b] \in {Absent, PyNone})
        => (last.exc = NoExc /\ last.ret = TRUE)

\* C15: for an entity e whose values are all held in comparable fields,
\* type(e).from_dict(e.to_dict()) returns an entity that is == e; unset
\* fields, empty multiple fields and nested entities included.
C15_RoundTrip ==
    (last.call = "round_trip" /\ OnlyComparable(Receiver))
        => (last.exc = NoExc /\ last.ret = TRUE)

\* The entity that the last call on an entity was made on, after the call.
ReceiverAfter == py.ents[last.params[1]]

\* A __set__ that returned, on a field that is multiple or not.
SetReturned(multiple) ==
    /\ last.call = "__set__"
    /\ last.exc = NoExc
    /\ Field(last.params[2]).multiple = multiple

\* [clean(x) for each x of items], in the order of items.
CleanedInOrder(field, items) ==
    [i \in 1..Len(items) |-> clean(field, items[i]).value]

\* The items of items that are not None, in the order of items.
WithoutNone(items) == SelectSeq(items, LAMBDA x : x # PyNone)

\* What a returned __set__ stores, but for the elements of a sequence:
\* keep(items) are the elements that are cleaned and stored.
SetStores(keep(_)) ==
    LET field == Field(last.params[2])
        value == last.params[3]
        stored == ReceiverAfter.fields[last.params[2]]
    IN  /\ SetReturned(TRUE) =>
              /\ stored.t \in {"list", "TypedList"}
              /\ stored.items =
                    IF value = PyNone THEN <<>>
                    ELSE IF ~is_sequence(value)
                    THEN <<clean(field, value).value>>
                    ELSE CleanedInOrder(field, keep(value.items))
        /\ SetReturned(FALSE) => stored = clean(field, value).value

\* C16 as stated: a returned __set__ on a multiple field stores a
\* sequence, the empty one for None, [clean(v)] for a value v that is not
\* a sequence and [clean(x) for each element x, in input order] for a
\* sequence, None elements included as None; on a field that is not
\* multiple it stores clean(value).
C16_Original == SetStores(LAMBDA items : items)

\* C16: a returned __set__ on a multiple field stores a sequence, the
\* empty one for None, [clean(v)] for a value v that is not a sequence and
\* [clean(x) for each element x that is not None, in input order] for a
\* sequence; on a field that is not multiple it stores clean(value).
C16_SetNormalizes == SetStores(WithoutNone)

\* A sequence with None before a string was assigned to a multiple field:
\* the string alone is stored.
C16_Witness ==
    /\ SetReturned(TRUE)
    /\ last.params[3] = Tuple(<<PyNone, Str(1)>>)
    /\ ReceiverAfter.fields[last.params[2]].items # <<>>

\* The entity that an __eq__ was called with, before the call.
Other == last.pre.ents[last.params[2]]

\* __eq__ was called on an entity with another entity.
EqOfDistinct == last.call = "__eq__" /\ last.params[1] # last.params[2]

RECURSIVE SameValue(_, _)
\* Two values are equal by structure: two entities when they have the same
\* class, the class has a comparable field and every comparable field
\* holds equal values (a field without a stored value holding None, or the
\* empty sequence when it is multiple), two sequences when they have equal
\* items in the same order, two strings when they are the same string.
SameValue(a, b) ==
    CASE a.t = "Entity" /\ b.t = "Entity" ->
           /\ a.class = b.class
           /\ Comparable(typed_fields(a.class)) # <<>>
           /\ \A attr \in Range(Comparable(typed_fields(a.class))) :
                 SameValue(get(a, attr).value, get(b, attr).value)
      [] a.t = b.t /\ a.t \in {"list", "TypedList", "tuple"} ->
           /\ Len(a.items) = Len(b.items)
           /\ \A i \in 1..Len(a.items) : SameValue(a.items[i], b.items[i])
      [] OTHER -> a = b

\* The class compares no list of entities (a TypedList).
ComparesNoTypedList(cls) ==
    \A attr \in Range(Comparable(typed_fields(cls))) :
       ~(Field(attr).multiple /\ Field(attr).type_ # NoClass)

\* Every comparable field holds values that are == in both entities.
HoldEqualValues(self, other) ==
    \A attr \in Range(Comparable(typed_fields(self.class))) :
       PyEq(get(self, attr).value, get(other, attr).value)

Held(entity, attr) ==
    IF entity.fields[attr] = Absent THEN PyNone ELSE entity.fields[attr]

\* The attributes of the entity whose field objects are of the kind.
OfKind(entity, kind) == {a \in DOMAIN entity.fields : Field(a).kind = kind}

\* The kind of field that a field of the kind clears.
OtherKind(kind) == IF kind = "IdField" THEN "IdrefField" ELSE "IdField"

\* A returned __set__ on an IdField or an IdrefField.
SetIdOrIdref ==
    /\ last.call = "__set__"
    /\ last.exc = NoExc
    /\ Field(last.params[2]).kind \in {"IdField", "IdrefField"}

\* C18: a returned __set__ of a non-empty value on an IdField removes the
\* stored value of every IdrefField of the entity, and the other way
\* round; with None or an empty value it leaves every other field as it
\* was; in both cases it stores the value; and no entity ever holds
\* non-empty values in an IdField and an IdrefField at once.
C18_IdClearsIdref ==
    /\ SetIdOrIdref =>
          LET attr == last.params[2]
              value == last.params[3]
              others == OfKind(Receiver, OtherKind(Field(attr).kind))
          IN  /\ ReceiverAfter.fields[attr] = value
              /\ Truthy(value) =>
                    /\ \A a \in others : ReceiverAfter.fields[a] = Absent
                    /\ \A a \in DOMAIN Receiver.fields \ (others \cup {attr}) :
                          ReceiverAfter.fields[a] = Receiver.fields[a]
              /\ ~Truthy(value) =>
                    \A a \in DOMAIN Receiver.fields \ {attr} :
                       ReceiverAfter.fields[a] = Receiver.fields[a]
    /\ \A slot \in DOMAIN py.ents :
          \A a \in OfKind(py.ents[slot], "IdField"),
             b \in OfKind(py.ents[slot], "IdrefField") :
                ~(Truthy(Held(py.ents[slot], a))
                     /\ Truthy(Held(py.ents[slot], b)))

\* An id was assigned to an entity that held an idref: the idref is gone.
C18_Witness ==
    /\ SetIdOrIdref
    /\ Field(last.params[2]).kind = "IdField"
    /\ Truthy(last.params[3])
    /\ Truthy(Held(Receiver, "idref"))
    /\ ReceiverAfter.fields["idref"] = Absent

\* The empty string was assigned as the id of an entity that held an
\* idref: the idref is still there.
C18_WitnessEmpty ==
    /\ SetIdOrIdref
    /\ Field(last.params[2]).kind = "IdField"
    /\ last.params[3] = Str(0)
    /\ Truthy(Held(ReceiverAfter, "idref"))

\* A __set__ on a field that is not multiple, returned or not.
SetSingle == last.call = "__set__" /\ ~Field(last.params[2]).multiple

\* C19: __set__ on a field that is not multiple stores None for None; the
\* value itself when the field has no type or the value is an instance of
\* the type; type_(value) when the type is castable; and otherwise raises
\* a TypeError naming the field, the type and the type of the value, and
\* leaves the entity as it was.
C19_Clean ==
    SetSingle =>
        LET field == Field(last.params[2])
            value == last.params[3]
            stored == ReceiverAfter.fields[last.params[2]]
        IN  IF value = PyNone
            THEN last.exc = NoExc /\ stored = PyNone
            ELSE IF field.type_ = NoClass \/ istypeof(field.type_, value)
            THEN last.exc = NoExc /\ stored = value
            ELSE IF try_cast(field.type_)
            THEN /\ last.exc = Construct(field.type_, <<value>>).exc
                 /\ last.exc = NoExc =>
                       /\ istypeof(field.type_, stored)
                       /\ stored = Construct(field.type_, <<value>>).value
            ELSE /\ last.exc = TypeError(<<field.name, field.type_,
                                           TypeOf(value)>>)
                 /\ ReceiverAfter = Receiver

\* A string was assigned to a field whose type is not castable and that
\* held an entity of the type: TypeError, and the entity is still held.
C19_Witness ==
    /\ SetSingle
    /\ last.exc.type = "TypeError"
    /\ last.params[3] \in Texts
    /\ istypeof("Bar", ReceiverAfter.fields[last.params[2]])

\* A string was assigned to a field whose type is castable: an entity
\* made from the string is stored.
C19_WitnessCast ==
    /\ SetSingle
    /\ last.exc = NoExc
    /\ last.params[3] \in Texts
    /\ istypeof("Foo", ReceiverAfter.fields[last.params[2]])
    /\ ReceiverAfter.fields[last.params[2]].fields["name"] = last.params[3]

\* A __get__ on a field of an entity that has no stored value for it.
GetOfMissing(multiple) ==
    /\ last.call = "__get__"
    /\ Receiver.fields[last.params[2]] = Absent
    /\ Field(last.params[2]).multiple = multiple

\* An append that returned, on a list that is the stored value of a field.
AppendToStored ==
    /\ last.call = "append"
    /\ last.exc = NoExc
    /\ last.pre.held.kind = "stored"

\* What the list has one more of after append(value): the value, or
\* type(value) for a TypedList of a castable type; a TypedList ignores
\* None.
Appended(list, value) ==
    IF list.t = "TypedList" /\ value = PyNone THEN <<>>
    ELSE IF list.t = "TypedList" /\ ~istypeof(list.type, value)
    THEN <<Construct(list.type, <<value>>).value>>
    ELSE <<value>>

\* C20: __get__ on a multiple field without a stored value returns an
\* empty sequence and stores it, the caller holding the stored object
\* itself, so that what is appended to it is in the list that the next
\* __get__ returns and in to_dict(); __get__ on a field with a stored
\* value returns that value; __get__ on a field that is not multiple and
\* without a stored value returns None and stores nothing.
C20_Get ==
    /\ GetOfMissing(TRUE) =>
          /\ last.ret.t \in {"list", "TypedList"}
          /\ last.ret.items = <<>>
          /\ ReceiverAfter.fields[last.params[2]] = last.ret
          /\ py.held = StoredAt(last.params[1], last.params[2])
    /\ GetOfMissing(FALSE) =>
          /\ last.ret = PyNone
          /\ ReceiverAfter = Receiver
    /\ (last.call = "__get__" /\ Receiver.fields[last.params[2]] # Absent) =>
          /\ last.ret = Receiver.fields[last.params[2]]
          /\ ReceiverAfter = Receiver
    /\ AppendToStored =>
          LET slot == last.pre.held.slot
              attr == last.pre.held.attr
              before == last.pre.ents[slot].fields[attr]
              now == py.ents[slot].fields[attr]
          IN  /\ now.items = before.items \o Appended(before, last.params[1])
              /\ get(py.ents[slot], attr).value = now
              /\ now.items # <<>> =>
                    dict_get(to_dict(py.ents[slot]), Field(attr).key_name)
                        = List([i \in 1..Len(now.items) |->
                                   dictify(Field(attr), now.items[i])])

\* __get__ was called on a multiple field without a stored value: the
\* entity now stores the empty list that was returned.
C20_Witness ==
    /\ GetOfMissing(TRUE)
    /\ ReceiverAfter.fields[last.params[2]] = last.ret
    /\ last.ret.items = <<>>

\* A string was appended to the list that __get__ had returned: to_dict
\* has it.
C20_WitnessAppend ==
    /\ AppendToStored
    /\ last.params[1] = Str(1)
    /\ last.pre.ents[last.pre.held.slot].fields[last.pre.held.attr].items = <<>>
    /\ dict_get(to_dict(py.ents[last.pre.held.slot]),
                Field(last.pre.held.attr).key_name) # PyNone

\* get_prefixes
get_prefixes(s, ns_uri) == Range(lookup_uri(s, ns_uri).prefixes)

\* The object that the prefix map holds for a prefix is the object that the
\* uri map holds for its uri.
SameObjectInBothMaps(s) ==
    \A p \in Prefixes :
       InPrefixMap(s, p) =>
          /\ contains_namespace(s, s.heap[s.prefix_map[p]].uri)
          /\ s.ns_uri_map[s.heap[s.prefix_map[p]].uri] = s.prefix_map[p]

\* C29: in every reachable state, for every prefix p and every uri u of the
\* set, namespace_for_prefix(p) is u if and only if p is in
\* get_prefixes(u), and a prefix that namespace_for_prefix knows is bound
\* to a uri of the set, through the very object that the uri map holds: no
\* entry of the prefix map outlives a removed prefix, a removed namespace,
\* or an info replaced by import_from or by a merge.
C29_PrefixMapAgrees ==
    /\ \A p \in Prefixes : \A u \in namespace_uris(ns) :
          namespace_for_prefix(ns, p) = u <=> p \in get_prefixes(ns, u)
    /\ \A p \in Prefixes :
          namespace_for_prefix(ns, p) \in namespace_uris(ns) \cup {None}
    /\ SameObjectInBothMaps(ns)
    /\ (last.call = "remove_prefix") =>
          namespace_for_prefix(ns, last.params[1]) = None
    /\ (last.call = "remove_namespace") =>
          \A p \in Prefixes :
             namespace_for_prefix(ns, p) # last.params[1]

\* import_from with replace returned after it had replaced a namespace
\* that had a prefix the other set does not give it: the prefix is bound
\* to nothing.
C29_Witness ==
    /\ last.call = "import_from"
    /\ last.exc = NoExc
    /\ last.params[3] = TRUE
    /\ \E u \in namespace_uris(last.pre) \cap namespace_uris(last.params[1]) :
          \E p \in get_prefixes(last.pre, u) :
             /\ p \notin get_prefixes(ns, u)
             /\ namespace_for_prefix(ns, p) = None

\* get_xmlns_string returned a string.
XmlnsReturned == last.call = "get_xmlns_string" /\ last.exc = NoExc

\* C30: when get_xmlns_string returns for distinct uris, in either mode,
\* every one of the uris is declared in the string, with a prefix or as
\* the default, and no prefix is declared for two different uris.
C30_XmlnsDeclaresAll ==
    XmlnsReturned =>
        /\ \A u \in Range(last.params[1]) :
              \E i \in DOMAIN last.ret : last.ret[i].uri = u
        /\ \A i, j \in DOMAIN last.ret :
              (last.ret[i].prefix # None
                  /\ last.ret[i].prefix = last.ret[j].prefix)
                 => last.ret[i].uri = last.ret[j].uri

\* Two namespaces that both prefer to be the default were declared in
\* preferred-prefixes-only mode: the second with a prefix.
C30_Witness ==
    /\ XmlnsReturned
    /\ last.params[3] = TRUE
    /\ Len(last.params[1]) = 2
    /\ \A u \in Range(last.params[1]) :
          lookup_uri(last.pre, u).preferred_prefix = None
    /\ \E i \in DOMAIN last.ret : last.ret[i].prefix # None

\* get_schemaloc_string returned.
SchemalocReturned == last.call = "get_schemaloc_string" /\ last.exc = NoExc

\* The pairs of the uris of q that have a schema location, in the order
\* of q.
PairsOf(s, q) ==
    LET having == SelectSeq(q, LAMBDA u :
                     ~Falsy(lookup_uri(s, u).schema_location))
    IN  [i \in DOMAIN having |-> SchemalocPair(lookup_uri(s, having[i]))]

\* The string made of the pairs of q: '' when there is none.
StringOf(s, q) ==
    IF PairsOf(s, q) = <<>> THEN EmptyText
    ELSE SchemaLocationAttribute(PairsOf(s, q))

\* What get_schemaloc_string returns when uris of the set are given, or
\* None: the pairs of the uris given, respectively of all the uris of the
\* set, in the order given (that of the dict), or sorted.
SchemalocOfGiven ==
    (SchemalocReturned /\ (last.params[1].is_none \/ last.params[1].uris # <<>>))
        => last.ret =
             StringOf(last.pre,
                      LET q == IF last.params[1].is_none THEN last.params[2]
                               ELSE last.params[1].uris
                      IN  IF last.params[3] THEN Sorted(q) ELSE q)

\* C27: get_schemaloc_string(ns_uris) with ns_uris a collection (not
\* None) of uris of the set returns the "uri schema_location" pairs of
\* exactly the uris of ns_uris that have a schema location, in the order
\* given or sorted, and the empty string when there is no such uri; all
\* the namespaces of the set are taken only when ns_uris is None.
C27_Schemaloc ==
    (SchemalocReturned /\ ~last.params[1].is_none)
        => last.ret =
             StringOf(last.pre,
                      IF last.params[3] THEN Sorted(last.params[1].uris)
                      ELSE last.params[1].uris)

\* A __set__ of a field of Base or Child, and one that returned.
HookedSet == last.call = "__set__" /\ last.params[2] \in FieldObjects("Child")
HookedSetReturned == HookedSet /\ last.exc = NoExc

\* The calls that a returned __set__ of f must have made: the preset
\* hook, if any, with the cleaned value while the instance held the old
\* one, then the postset hook, if any, with the cleaned value while the
\* instance held it.
HooksDue(f, old, cleaned) ==
    (IF preset_hook(f)
     THEN <<[hook |-> "preset_hook", holds |-> old, value |-> cleaned]>>
     ELSE <<>>)
    \o (IF postset_hook(f)
        THEN <<[hook |-> "postset_hook", holds |-> cleaned, value |-> cleaned]>>
        ELSE <<>>)

\* C26: a __set__ cleans first, then calls preset_hook(entity, cleaned)
\* while the old value is stored, then stores, then calls
\* postset_hook(entity, cleaned) with the new value stored; each hook
\* that the field has is called exactly once in a set that returns; when
\* the cleaning raises, no hook is called and the stored value is the
\* old one.
C26_Hooks ==
    HookedSet =>
        IF clean(Field(last.params[2]), last.params[3]).exc # NoExc
        THEN /\ last.exc = clean(Field(last.params[2]), last.params[3]).exc
             /\ last.ret = <<>>
             /\ ReceiverAfter = Receiver
        ELSE /\ last.exc = NoExc
             /\ last.ret =
                    HooksDue(last.params[2],
                             Receiver.fields[last.params[2]],
                             clean(Field(last.params[2]), last.params[3]).value)
             /\ ReceiverAfter.fields[last.params[2]] =
                    clean(Field(last.params[2]), last.params[3]).value

\* A field with both hooks that held a string was set to another one:
\* the preset hook saw the old string, the postset hook the new one.
C26_Witness ==
    /\ HookedSetReturned
    /\ Len(last.ret) = 2
    /\ last.ret[1].holds \in Texts
    /\ last.ret[2].holds \in Texts
    /\ last.ret[1].holds # last.ret[2].holds

\* The cleaning raised for a field with hooks that held an entity.
C26_WitnessRaised ==
    /\ HookedSet
    /\ last.exc.type = "TypeError"
    /\ preset_hook(last.params[2]) /\ postset_hook(last.params[2])
    /\ istypeof("Bar", ReceiverAfter.fields[last.params[2]])

\* The field objects of the receiver other than f.
OtherFields(f) == DOMAIN Receiver.fields \ {f}

\* fields.unset was called.
UnsetCalled == last.call = "unset"

\* C28: the values of an entity are stored per field object: a __set__ of
\* a plain field f changes the value of f only, and every other field
\* object keeps its value, the one of the same name, the one of the same
\* key_name and the one defined by a superclass included; and
\* fields.unset(entity, T) removes the stored values of exactly the
\* fields that are instances of T (of TypedField when no T is given).
C28_PerFieldObject ==
    /\ HookedSetReturned =>
          \A g \in OtherFields(last.params[2]) :
              ReceiverAfter.fields[g] = Receiver.fields[g]
    /\ UnsetCalled =>
          \A g \in DOMAIN Receiver.fields :
              ReceiverAfter.fields[g] =
                  IF \/ Field(g).kind \in last.params[2]
                     \/ last.params[2] \in {{}, {"TypedField"}}
                  THEN Absent
                  ELSE Receiver.fields[g]

\* An instance of Child held a value for the field of the same name, one
\* for the field of the same key_name and attribute that its class
\* hides, and a field was set to yet another value.
C28_Witness ==
    /\ HookedSetReturned
    /\ last.params[2] = "Base.item"
    /\ Receiver.class = "Child"
    /\ Receiver.fields["Base.same"] \in Texts
    /\ istypeof("Bar", Receiver.fields["Child.item"])
    /\ ReceiverAfter.fields["Base.item"] \in Texts
    /\ ReceiverAfter.fields["Base.item"] # Receiver.fields["Base.same"]

\* unset(entity, UnsetField) removed the value of the UnsetField and left
\* that of the TypedField of the same name.
C28_WitnessUnset ==
    /\ UnsetCalled
    /\ last.params[2] = {"UnsetField"}
    /\ Receiver.fields["Base.same"] \in Texts
    /\ ReceiverAfter.fields["Base.same"] = Absent
    /\ ReceiverAfter.fields["Base.item"] \in Texts

\* The elements of the stored collection of an EntityList (none when
\* nothing is stored for the multiple field).
StoredItems(entity) ==
    IF entity.fields[multiple_field(entity.class)] = Absent THEN <<>>
    ELSE entity.fields[multiple_field(entity.class)].items

\* The dicts of the elements, in order.
ElementDicts(entity) ==
    List([i \in 1..Len(StoredItems(entity)) |-> to_dict(StoredItems(entity)[i])])

\* The value of the label of a FooBox, None when it has none.
Label(entity) ==
    IF entity.fields["FooBox.label"] = Absent THEN PyNone
    ELSE entity.fields["FooBox.label"]

\* The object-shaped dict of a FooBox: the element dicts under the
\* key_name of the multiple field when there are elements, the label
\* under its key_name when it is not None.
BoxDict(entity) ==
    Dict([k \in (IF StoredItems(entity) = <<>> THEN {} ELSE {"foo"})
                 \cup (IF Label(entity) = PyNone THEN {} ELSE {"label"}) |->
             IF k = "foo" THEN ElementDicts(entity) ELSE Label(entity)])

\* to_dict gives the list of the element dicts for the class of one
\* field and the dict keyed by key_name for the class of two.
ListToDictShape ==
    last.call = "to_dict" =>
        last.ret = IF Receiver.class = "FooList" THEN ElementDicts(Receiver)
                   ELSE BoxDict(Receiver)

\* from_dict made an EntityList of the class of the receiver with the
\* elements and the label of the receiver.
Rebuilt ==
    /\ last.exc = NoExc
    /\ istypeof(Receiver.class, last.ret)
    /\ StoredItems(last.ret) = StoredItems(Receiver)
    /\ Receiver.class = "FooBox" => Label(last.ret) = Label(Receiver)

\* from_dict was given what to_dict made of the receiver.
ListFromDictCalled ==
    /\ last.call = "from_dict"
    /\ last.params[2] = IF Receiver.class = "FooList"
                         THEN ElementDicts(Receiver)
                         ELSE BoxDict(Receiver)

\* The element that insert puts into the collection for a value.
AsElement(value) ==
    IF istypeof("Foo", value) THEN value
    ELSE Construct("Foo", <<value>>).value

\* The fields of the receiver besides the multiple one are as they were.
OtherFieldsKept ==
    \A a \in DOMAIN Receiver.fields \ {multiple_field(Receiver.class)} :
        ReceiverAfter.fields[a] = Receiver.fields[a]

\* len, indexing, insertion and deletion act on the stored collection of
\* the multiple field.
ListSequenceOps ==
    /\ last.call = "insert" =>
          /\ last.exc = NoExc
          /\ OtherFieldsKept
          /\ StoredItems(ReceiverAfter) =
                IF Truthy(last.params[3])
                THEN list_insert(StoredItems(Receiver), last.params[2],
                                 AsElement(last.params[3]))
                ELSE StoredItems(Receiver)
    /\ last.call = "__len__" =>
          /\ last.ret = Len(StoredItems(Receiver))
          /\ StoredItems(ReceiverAfter) = StoredItems(Receiver)
          /\ OtherFieldsKept
    /\ last.call = "__getitem__" =>
          /\ StoredItems(ReceiverAfter) = StoredItems(Receiver)
          /\ OtherFieldsKept
          /\ IF last.params[2] < Len(StoredItems(Receiver))
             THEN /\ last.exc = NoExc
                  /\ last.ret = StoredItems(Receiver)[last.params[2] + 1]
             ELSE last.exc.type = "IndexError"
    /\ last.call = "__delitem__" =>
          /\ OtherFieldsKept
          /\ IF last.params[2] < Len(StoredItems(Receiver))
             THEN /\ last.exc = NoExc
                  /\ StoredItems(ReceiverAfter) =
                        list_delitem(StoredItems(Receiver), last.params[2])
             ELSE /\ last.exc.type = "IndexError"
                  /\ StoredItems(ReceiverAfter) = StoredItems(Receiver)

C21_WitnessDict ==
    /\ ListFromDictCalled
    /\ Receiver.class = "FooBox"
    /\ StoredItems(Receiver) # <<>>
    /\ Label(Receiver) \in Texts
    /\ Rebuilt

\* A string was inserted before the element of an EntityList.
C21_WitnessInsert ==
    /\ last.call = "insert"
    /\ last.params[2] = 0
    /\ last.params[3] \in Texts
    /\ Len(StoredItems(ReceiverAfter)) = 2
    /\ StoredItems(ReceiverAfter)[1] # StoredItems(ReceiverAfter)[2]

\* The receivers connected to a signal in the module m: those that the
\* references of its list that are not dead refer to, in order.
Connected(m, signal) ==
    SelectSeq(m.receivers[signal], LAMBDA r : r \in m.alive)

\* The list without the first occurrence of the receiver.
WithoutFirst(list, receiver) ==
    SubSeq(list, 1, first_index(list, receiver) - 1)
        \o SubSeq(list, first_index(list, receiver) + 1, Len(list))

\* What disconnect(signal, receiver) does when S are the signals that it
\* returns for: True and the first registration of the receiver removed
\* when it is connected to the signal, False and nothing changed
\* otherwise.
DisconnectFor(S) ==
    (last.call = "disconnect" /\ last.params[1] \in S) =>
        /\ last.exc = NoExc
        /\ last.ret = (last.params[2] \in
                          Range(Connected(last.pre, last.params[1])))
        /\ \A s \in Signals :
              Connected(signals, s) =
                  IF s = last.params[1]
                  THEN WithoutFirst(Connected(last.pre, s), last.params[2])
                  ELSE Connected(last.pre, s)

\* emit invokes the receivers connected to the signal, once for each
\* registration and in the order of connection.
EmitInvokesConnected ==
    last.call = "emit" => last.ret = Connected(last.pre, last.params[1])

\* disconnect and emit for the signals that something was connected to
\* at some time.
DisconnectOfKnownSignal ==
    DisconnectFor(last.pre.keys) /\ EmitInvokesConnected

\* Only connect(signal, receiver) connects a receiver to a signal.
OnlyConnectConnects ==
    [][\A s \in Signals, r \in Receivers :
          (r \in Range(Connected(signals', s))
              /\ r \notin Range(Connected(signals, s)))
          => (last'.call = "connect" /\ last'.params = <<s, r>>)]_vars

\* C25: disconnect(signal, receiver) returns True and removes the
\* registration when the receiver is connected to the signal, and returns
\* False and changes nothing otherwise, whatever the signal, one that
\* nothing was ever connected to included; once disconnected, a receiver
\* that was connected once is not invoked by an emit of the signal, and
\* the other receivers connected to it are.
C25_Disconnect == DisconnectFor(Signals) /\ EmitInvokesConnected

\* The objects that are alive and whose id_ is k.
WithId(c, k) == {o \in c.alive : c.id_[o] = k}

\* C24: whatever was assigned to the id_ of the Cached objects,
\* getall(k) is for every key k the set of the live objects whose id_ is
\* k now: an object whose id_ went from a to b is found under b and not
\* under a; get(k) returns the object when there is one such object,
\* raises CacheMiss when there is none and MultipleCached when there
\* are several.
C24_CacheFollowsIds ==
    /\ \A k \in CacheKeys \cup {None} : getall(cache, k) = WithId(cache, k)
    /\ last.call = "getall" => last.ret = WithId(last.pre, last.params[1])
    /\ last.call = "get" =>
          IF Cardinality(WithId(last.pre, last.params[1])) = 1
          THEN last.exc = NoExc /\ WithId(last.pre, last.params[1]) = {last.ret}
          ELSE IF WithId(last.pre, last.params[1]) = {}
          THEN last.exc.type = "CacheMiss"
          ELSE last.exc.type = "MultipleCached"
    /\ last.call = "__setattr__" =>
          /\ last.params[1] \in getall(cache, last.params[2])
          /\ \A k \in (CacheKeys \cup {None}) \ {last.params[2]} :
                last.params[1] \notin getall(cache, k)

\* The id_ of an object went from a key to another one that another
\* object has: it is found under the new key with the other one, and the
\* old key holds nothing.
C24_Witness ==
    /\ last.call = "__setattr__"
    /\ last.pre.id_[last.params[1]] \in CacheKeys \ {last.params[2]}
    /\ last.params[2] \in CacheKeys
    /\ Cardinality(getall(cache, last.params[2])) = 2
    /\ getall(cache, last.pre.id_[last.params[1]]) = {}

\* get raised MultipleCached.
C24_WitnessMultiple == last.call = "get" /\ last.exc.type = "MultipleCached"

\* get raised CacheMiss for a key while every object had another key.
C24_WitnessMiss ==
    /\ last.call = "get"
    /\ last.exc.type = "CacheMiss"
    /\ cache.alive = CachedObjects
    /\ \A o \in CachedObjects : cache.id_[o] \in CacheKeys \ {last.params[1]}
\* ====================================================================
\* NamespaceCollector (entities.py)
\*
\* collector.registry is namespaces.__ALL_NAMESPACES, collector.declared
\* the class attributes of A, B(A) and C(B), collector.inputs the
\* __input_namespaces__ that entities of the program have; the other
\* fields are the attributes of one NamespaceCollector.  Entity and
\* object, which end every __mro__, define none of _namespace, _XSI_NS and
\* _XSI_TYPE and are skipped by the first test of the loop of
\* _parse_collected_classes: the model leaves them out of the __mro__.
\* No entity has __input_schemalocations__.
\* ====================================================================
AndThen(r, F(_)) == IF r.exc # NoExc THEN r ELSE F(r.ns)

\* The orders in which a set can yield its elements.
ListsOf(S) == {q \in InjSeqs(S, Cardinality(S)) : Len(q) = Cardinality(S)}

\* _XSI_TYPE = "<alias>:<type>", and an _XSI_TYPE without a colon
QName(alias) == [parts |-> 2, alias |-> alias]
NoColon == [parts |-> 1, alias |-> None]

\* The class bodies of the programs: A with any namespace or none, and
\* with no alias, with _XSI_NS or with an _XSI_TYPE; B with an _XSI_TYPE
\* of its own or none; C with a namespace at most.
BodiesA ==
    {[namespace |-> n, xsi_ns |-> a, xsi_type |-> NoXsiType] :
        n \in AllUris \cup {None}, a \in {None, NumPrefixes - 1}}
    \cup {[namespace |-> n, xsi_ns |-> None,
           xsi_type |-> QName(NumPrefixes - 1)] : n \in AllUris \cup {None}}
BodiesB ==
    {[namespace |-> n, xsi_ns |-> None, xsi_type |-> t] :
        n \in AllUris \cup {None},
        t \in {NoXsiType, QName(NumPrefixes), NoColon}}
BodiesC ==
    {[namespace |-> n, xsi_ns |-> None, xsi_type |-> NoXsiType] :
        n \in AllUris \cup {None}}
ClassBodies ==
    {[k \in CollectedClassNames |->
         CASE k = "A" -> a [] k = "B" -> b [] k = "C" -> c] :
        a \in BodiesA, b \in BodiesB, c \in BodiesC}

\* What a program registers besides the namespaces of the module.
Registered ==
    {Namespace(u, p, None) : u \in URIs, p \in {None, NumPrefixes - 1}}

\* namespaces.register_namespace
register_namespace(registry, namespace) == add_namespace(registry, namespace)

RECURSIVE Registries(_)
\* The registries after at most n calls of register_namespace that
\* returned.
Registries(n) ==
    IF n = 0 THEN {ALL_NAMESPACES}
    ELSE Registries(n - 1) \cup
         {Normalize(register_namespace(r, namespace).ns) :
             r \in Registries(n - 1), namespace \in Registered}

RECURSIVE getattr_class(_, _, _)
\* getattr(klass, name, None) for a class attribute: what the first class
\* of the __mro__ (given as classes) that defines it holds.
getattr_class(declared, classes, name) ==
    IF classes = <<>> THEN
        IF name = "_XSI_TYPE" THEN NoXsiType ELSE None
    ELSE IF name = "_namespace" /\ declared[Head(classes)].namespace # None
    THEN declared[Head(classes)].namespace
    ELSE IF name = "_XSI_NS" /\ declared[Head(classes)].xsi_ns # None
    THEN declared[Head(classes)].xsi_ns
    ELSE IF name = "_XSI_TYPE" /\ declared[Head(classes)].xsi_type # NoXsiType
    THEN declared[Head(classes)].xsi_type
    ELSE getattr_class(declared, Tail(classes), name)

\* "d[key] = value" for a dict given by its items in insertion order
setitem(items, key, value) ==
    IF \E i \in 1..Len(items) : items[i][1] = key
    THEN [i \in 1..Len(items) |->
             IF items[i][1] = key THEN <<key, value>> ELSE items[i]]
    ELSE Append(items, <<key, value>>)

\* list(d.values())
values(items) == [i \in 1..Len(items) |-> items[i][2]]

RECURSIVE dict_update(_, _)
\* d.update(other)
dict_update(items, other) ==
    IF other = <<>> THEN items
    ELSE dict_update(setitem(items, Head(other)[1], Head(other)[2]),
                     Tail(other))

\* One pass of the loop of _parse_collected_classes, for a class whose
\* attributes are ns_, alias and xsi_type.
parse_class(found, ns_, alias, xsi_type) ==
    IF Falsy(ns_) THEN found
    ELSE IF ~Falsy(alias)
    THEN [found EXCEPT !.alias2uri = setitem(@, alias, ns_)]
    ELSE IF xsi_type.parts = 0
    THEN [found EXCEPT !.noalias = @ \cup {ns_}]
    ELSE IF xsi_type.parts = 2
    THEN [found EXCEPT !.alias2uri = setitem(@, xsi_type.alias, ns_)]
    ELSE [found EXCEPT !.noalias = @ \cup {ns_}]

RECURSIVE parse_classes(_, _, _)
\* "for klass in self._collected_classes"; classes is the order in which
\* the set yields them.
parse_classes(declared, classes, found) ==
    IF classes = <<>> THEN found
    ELSE parse_classes(
             declared, Tail(classes),
             parse_class(
                 found,
                 getattr_class(declared, mro(Head(classes)), "_namespace"),
                 getattr_class(declared, mro(Head(classes)), "_XSI_NS"),
                 getattr_class(declared, mro(Head(classes)), "_XSI_TYPE")))

\* alias2uri and noalias after the loop
found_aliases(c, classes) ==
    parse_classes(c.declared, classes, [alias2uri |-> <<>>, noalias |-> {}])

\* namespaces.lookup_name
lookup_name(registry, ns_uri) ==
    IF ~contains_namespace(registry, ns_uri)
    THEN [value |-> None, exc |-> NamespaceNotFoundError(ns_uri)]
    ELSE [value |-> lookup_uri(registry, ns_uri).preferred_prefix,
          exc |-> NoExc]

\* A NamespaceSet that shares no object with another one.
copied(r) == [r EXCEPT !.ns = SetValue(@)]

\* namespaces.make_namespace_subset_from_uris: subset makes the new set of
\* copies of the infos of the registry.
make_namespace_subset_from_uris(registry, uris) ==
    copied(subset(registry, uris))

RECURSIVE prefer_aliases(_, _)
\* "for prefix, ns_uri in six.iteritems(alias2uri)": the alias of a class
\* becomes the preferred prefix of a namespace that has none.
prefer_aliases(nsset, items) ==
    IF items = <<>> THEN [ns |-> nsset, exc |-> NoExc]
    ELSE IF ~Falsy(lookup_uri(nsset, Head(items)[2]).preferred_prefix)
    THEN prefer_aliases(nsset, Tail(items))
    ELSE AndThen(set_preferred_prefix_for_namespace(
                     nsset, Head(items)[2], Head(items)[1], TRUE),
                 LAMBDA n : prefer_aliases(n, Tail(items)))

\* The NamespaceSet that _parse_collected_classes builds of what the loop
\* found; noalias is list(noalias), the set in the order in which it
\* yields its uris.
collected_nsset(registry, alias2uri, noalias) ==
    AndThen(make_namespace_subset_from_uris(registry,
                                            values(alias2uri) \o noalias),
            LAMBDA nsset : prefer_aliases(nsset, alias2uri))

\* "self._collected_namespaces = nsset", which an exception skips
set_collected(c, r) ==
    [collector |-> IF r.exc # NoExc THEN c
                   ELSE [c EXCEPT !.collected_namespaces =
                                      SomeSet(Normalize(r.ns))],
     exc |-> r.exc]

\* NamespaceCollector._parse_collected_classes, once the loop has found
\* alias2uri and noalias
parse_collected_classes(c, found, noalias) ==
    set_collected(c, collected_nsset(c.registry, found.alias2uri, noalias))

\* NamespaceCollector.collect, for an entity of class cls whose
\* __input_namespaces__ is input (empty when it has none)
collect(c, cls, input) ==
    [c EXCEPT !.collected_classes = @ \cup Range(mro(cls)),
              !.input_namespaces = dict_update(@, input)]

\* A program with its classes and its registry, and a new collector.
Program(registry, declared, inputs) ==
    [NamespaceCollector_init(registry, declared) EXCEPT !.inputs = inputs]

\* The most namespaces a program registers.
MaxRegistered == 2

\* A program whose entities were not parsed, with any class bodies, and a
\* new NamespaceCollector.
InitCollect ==
    /\ ns = EmptySet
    /\ sub = NoSubset
    /\ py = NoEntities
    /\ signals = SignalsImported
    /\ cache = CacheImported
    /\ last = Idle
    /\ collector \in {Program(r, d, {<<>>}) :
                         r \in Registries(MaxRegistered), d \in ClassBodies}

\* collector.collect(entity)
Collect ==
    /\ last.call = "none"
    /\ UNCHANGED <<ns, sub, py, signals, cache>>
    /\ \E cls \in CollectedClassNames, input \in collector.inputs :
          /\ collector' = collect(collector, cls, input)
          /\ last' = Call("collect", <<cls, input>>, EmptySet, NoExc, None)

\* collector._parse_collected_classes()
ParseCollectedClasses ==
    /\ last.call = "none"
    /\ UNCHANGED <<ns, sub, py, signals, cache>>
    /\ \E classes \in ListsOf(collector.collected_classes) :
          \E found \in {found_aliases(collector, classes)} :
              \E noalias \in ListsOf(found.noalias) :
                  \E r \in {parse_collected_classes(collector, found, noalias)} :
                      /\ collector' = r.collector
                      /\ last' = Call("_parse_collected_classes",
                                      <<classes, noalias>>, EmptySet,
                                      r.exc, None)

NextCollect ==
    \/ Collect
    \/ ParseCollectedClasses
    \/ Return

SpecCollect == InitCollect /\ [][NextCollect]_vars

\* ------------------------------------------------------------- finalize
\* idgen.EXAMPLE_NAMESPACE, and the id namespace of idgen, which is the
\* example namespace as long as the program sets no other one.
EXAMPLE_NAMESPACE == Namespace(NumUris, NumPrefixes - 1, EmptyString)
get_id_namespace == EXAMPLE_NAMESPACE.name
get_id_namespace_alias == EXAMPLE_NAMESPACE.prefix
get_id_namespace_prefix == EXAMPLE_NAMESPACE.prefix

\* "key in d"
haskey(items, key) == \E i \in 1..Len(items) : items[i][1] = key

\* NamespaceCollector._fix_example_namespace
fix_example_namespace(c) ==
    IF get_id_namespace_prefix # NumPrefixes - 1 THEN c
    ELSE IF ~haskey(c.input_namespaces, NumPrefixes - 1) THEN c
    ELSE [c EXCEPT !.input_namespaces =
                       setitem(@, NumPrefixes - 1, EXAMPLE_NAMESPACE.name)]

CThen(r, F(_)) == IF r.exc # NoExc THEN r ELSE F(r.collector)

\* The collector whose _collected_namespaces is the set that a call left,
\* with the exception that the call raised: the methods of the set act on
\* the object in place, an exception does not undo what came before it.
in_place(c, r) ==
    [collector |-> [c EXCEPT !.collected_namespaces.set = r.ns],
     exc |-> r.exc]

RECURSIVE add_uri_items(_, _)
\* "for ns, alias in six.iteritems(ns_dict):
\*      self._collected_namespaces.add_namespace_uri(ns, alias)"
add_uri_items(s, items) ==
    IF items = <<>> THEN [ns |-> s, exc |-> NoExc]
    ELSE AndThen(add_namespace_uri(s, Head(items)[1], Head(items)[2], None),
                 LAMBDA n : add_uri_items(n, Tail(items)))

RECURSIVE add_prefix_items(_, _)
\* "for prefix, uri in six.iteritems(self._input_namespaces):
\*      self._collected_namespaces.add_namespace_uri(uri, prefix)"
add_prefix_items(s, items) ==
    IF items = <<>> THEN [ns |-> s, exc |-> NoExc]
    ELSE AndThen(add_namespace_uri(s, Head(items)[2], Head(items)[1], None),
                 LAMBDA n : add_prefix_items(n, Tail(items)))

\* The user's entries, then the id namespace
add_given(s, ns_dict) ==
    AndThen(add_uri_items(s, ns_dict),
            LAMBDA n : add_namespace_uri(n, get_id_namespace,
                                         get_id_namespace_alias, None))

\* The uris of s in the order in which its uri dict yields them, order
\* being an order of all uris.
yielded(s, order) == SelectSeq(order, LAMBDA u : contains_namespace(s, u))

\* The prefix that _finalize_namespaces finds for a namespace without a
\* preferred one.
found_prefix(s, registry, ns_uri) ==
    IF get_prefixes(s, ns_uri) # {}
    THEN [value |-> Head(lookup_uri(s, ns_uri).prefixes), exc |-> NoExc]
    ELSE lookup_name(registry, ns_uri)

\* "if prefix is None: raise"; the call that sets the preferred prefix
set_found_prefix(s, ns_uri, prefix) ==
    IF prefix.exc # NoExc THEN [ns |-> s, exc |-> prefix.exc]
    ELSE IF prefix.value = None THEN [ns |-> s, exc |-> NoPrefixesError(ns_uri)]
    ELSE set_preferred_prefix_for_namespace(s, ns_uri, prefix.value, TRUE)

RECURSIVE elect_prefixes(_, _, _)
\* "for ns_uri in self._collected_namespaces.namespace_uris"
elect_prefixes(s, registry, ns_uris) ==
    IF ns_uris = <<>> THEN [ns |-> s, exc |-> NoExc]
    ELSE IF ~Falsy(lookup_uri(s, Head(ns_uris)).preferred_prefix)
    THEN elect_prefixes(s, registry, Tail(ns_uris))
    ELSE AndThen(set_found_prefix(s, Head(ns_uris),
                                  found_prefix(s, registry, Head(ns_uris))),
                 LAMBDA n : elect_prefixes(n, registry, Tail(ns_uris)))

\* The end of _finalize_namespaces: the input namespaces, the XML
\* namespaces and the loop that elects the preferred prefixes
add_required(s, registry, input_namespaces, order) ==
    AndThen(add_prefix_items(s, input_namespaces),
            LAMBDA n :
                AndThen(import_from(n, XML_NAMESPACES,
                                    yielded(XML_NAMESPACES, order), FALSE),
                        LAMBDA m : elect_prefixes(m, registry,
                                                  yielded(m, order))))

\* _finalize_namespaces after _fix_example_namespace
finalize_fixed(c, order) ==
    in_place(c, add_required(c.collected_namespaces.set, c.registry,
                             c.input_namespaces, order))

\* NamespaceCollector._finalize_namespaces
finalize_namespaces(c, ns_dict, order) ==
    CThen(in_place(c, add_given(c.collected_namespaces.set, ns_dict)),
          LAMBDA d : finalize_fixed(fix_example_namespace(d), order))

RECURSIVE update_schemalocs(_, _)
\* "for ns, loc in six.iteritems(schemaloc_dict)", the entities having no
\* __input_schemalocations__
update_schemalocs(s, items) ==
    IF items = <<>> THEN [ns |-> s, exc |-> NoExc]
    ELSE IF /\ contains_namespace(s, Head(items)[1])
            /\ lookup_uri(s, Head(items)[1]).schema_location = None
    THEN AndThen(set_schema_location(s, Head(items)[1], Head(items)[2], FALSE),
                 LAMBDA n : update_schemalocs(n, Tail(items)))
    ELSE update_schemalocs(s, Tail(items))

\* NamespaceCollector._finalize_schemalocs; the warnings change nothing.
finalize_schemalocs(c, schemaloc_dict) ==
    in_place(c, update_schemalocs(c.collected_namespaces.set, schemaloc_dict))

\* NamespaceSet.get_uri_schemaloc_map
get_uri_schemaloc_map(s) ==
    [u \in AllUris |->
        IF contains_namespace(s, u) /\ ~Falsy(lookup_uri(s, u).schema_location)
        THEN lookup_uri(s, u).schema_location
        ELSE 0]

\* "self.binding_namespaces = ...get_uri_prefix_map()"
set_binding(c, r) ==
    [collector |-> IF r.exc # NoExc THEN c
                   ELSE [c EXCEPT !.binding_namespaces = SomeDict(r.ret)],
     exc |-> r.exc]

\* The two assignments that end finalize
set_finalized(c, order) ==
    set_binding(
        [c EXCEPT !.finalized_schemalocs =
                      SomeDict(get_uri_schemaloc_map(c.collected_namespaces.set))],
        get_uri_prefix_map(c.collected_namespaces.set,
                           yielded(c.collected_namespaces.set, order)))

\* The collector whatever the identities of the infos of its set.
collector_value(r) ==
    [r EXCEPT !.collector.collected_namespaces.set = Normalize(@)]

\* NamespaceCollector.finalize, once the loop of _parse_collected_classes
\* has found alias2uri and noalias
finalize(c, found, noalias, ns_dict, schemaloc_dict, order) ==
    CThen(parse_collected_classes(c, found, noalias),
          LAMBDA p :
              CThen(finalize_namespaces(p, ns_dict, order),
                    LAMBDA n :
                        CThen(finalize_schemalocs(n, schemaloc_dict),
                              LAMBDA l : set_finalized(l, order))))

\* The ns_dict and the schemaloc_dict that finalize is given: none, or one
\* entry.
NsDicts ==
    {<<>>} \cup {<<<<u, p>>>> : u \in AllUris, p \in Prefixes \cup {None}}
SchemalocDicts == {<<>>, <<<<NumUris - 1, NumLocs>>>>}

\* The orders in which the uri dict of a set yields its keys: ascending
\* and descending.
UriOrders ==
    {[i \in 1..Cardinality(AllUris) |-> i],
     [i \in 1..Cardinality(AllUris) |-> Cardinality(AllUris) + 1 - i]}

\* The __input_namespaces__ of an entity that was parsed.
ParsedInput == <<<<NumPrefixes - 1, NumUris + NumForeignUris>>,
                 <<NumPrefixes, NumUris + NumForeignUris>>>>

\* The class bodies of the programs that finalize: A with any namespace
\* and alias, B with the first namespace or none, C without attributes.
FinalizedBodies ==
    {d \in ClassBodies :
        /\ d["B"].namespace \in {None, NumUris - 1}
        /\ d["B"].xsi_type # NoColon
        /\ d["C"] = Undeclared}

\* A program with parsed and unparsed entities, and a new
\* NamespaceCollector.
InitFinalize ==
    /\ ns = EmptySet
    /\ sub = NoSubset
    /\ py = NoEntities
    /\ signals = SignalsImported
    /\ cache = CacheImported
    /\ last = Idle
    /\ collector \in {Program(r, d, {<<>>, ParsedInput}) :
                         r \in Registries(MaxRegistered),
                         d \in FinalizedBodies}

\* The most calls of finalize on the collector.
MaxFinalize == 1

\* collector.finalize(ns_dict, schemaloc_dict)
Finalize ==
    /\ last.call = "none"
    /\ collector.finalize_calls < MaxFinalize
    /\ UNCHANGED <<ns, sub, py, signals, cache>>
    /\ \E ns_dict \in NsDicts, schemaloc_dict \in SchemalocDicts,
          order \in UriOrders :
          \E found \in {found_aliases(collector, classes) :
                           classes \in ListsOf(collector.collected_classes)} :
              \E noalias \in ListsOf(found.noalias) :
                  \E r \in {finalize(collector, found, noalias, ns_dict,
                                     schemaloc_dict, order)} :
                      /\ collector' =
                            [collector_value(r).collector
                                EXCEPT !.finalize_calls = @ + 1]
                      /\ last' = Call("finalize", <<ns_dict, schemaloc_dict>>,
                                      EmptySet, r.exc, None)

NextFinalize ==
    \/ Collect
    \/ Finalize
    \/ Return

SpecFinalize == InitFinalize /\ [][NextFinalize]_vars

\* ------------------------------------------------ claims on the collector
\* The namespaces that the collected classes declare.
DeclaredNamespaces(c) ==
    {c.declared[k].namespace : k \in c.collected_classes} \ {None}

\* The alias that _parse_collected_classes reads for a class.
AliasOf(c, k) ==
    IF ~Falsy(getattr_class(c.declared, mro(k), "_XSI_NS"))
    THEN getattr_class(c.declared, mro(k), "_XSI_NS")
    ELSE getattr_class(c.declared, mro(k), "_XSI_TYPE").alias

\* _parse_collected_classes has returned, and every namespace that a
\* collected class declares is registered.
ParsedRegistered ==
    /\ last.call = "_parse_collected_classes"
    /\ last.exc = NoExc
    /\ collector.collected_namespaces.present
    /\ \A u \in DeclaredNamespaces(collector) :
          contains_namespace(collector.registry, u)

\* No two collected classes have the same alias for different namespaces.
AliasesApart ==
    \A k1, k2 \in collector.collected_classes :
        (/\ AliasOf(collector, k1) # None
         /\ AliasOf(collector, k1) = AliasOf(collector, k2))
        => getattr_class(collector.declared, mro(k1), "_namespace")
              = getattr_class(collector.declared, mro(k2), "_namespace")

\* After _parse_collected_classes the collected set holds no namespace but
\* those that the collected classes declare, and holds all of them when no
\* alias stands for two namespaces.
CollectedOfDeclared ==
    ParsedRegistered =>
        /\ namespace_uris(collector.collected_namespaces.set)
              \subseteq DeclaredNamespaces(collector)
        /\ AliasesApart =>
              namespace_uris(collector.collected_namespaces.set)
                 = DeclaredNamespaces(collector)

\* C, B and A declare three namespaces with three ways of giving an alias,
\* and the collected set has the three.
CollectedThree ==
    /\ ParsedRegistered
    /\ AliasesApart
    /\ collector.collected_classes = CollectedClassNames
    /\ Cardinality(namespace_uris(collector.collected_namespaces.set)) = 3

\* C22: after collect and _parse_collected_classes, the collected
\* NamespaceSet contains the namespace of every class of the ancestor
\* chain that declares one, all of them being registered.
C22_Collected ==
    ParsedRegistered =>
        DeclaredNamespaces(collector)
           \subseteq namespace_uris(collector.collected_namespaces.set)

\* The set of the collector, and the uris of the ns_dict that finalize was
\* given.
CollectedSet == collector.collected_namespaces.set
GivenUris == {last.params[1][i][1] : i \in 1..Len(last.params[1])}

\* The namespaces that finalize adds to those of the classes: the uris of
\* ns_dict, the id namespace, the input namespaces and the XML namespaces.
RequiredNamespaces ==
    GivenUris \cup {get_id_namespace}
        \cup Range(values(collector.input_namespaces))
        \cup namespace_uris(XML_NAMESPACES)

\* The namespaces that the collected classes have, inherited ones
\* included.
ClassNamespaces ==
    {getattr_class(collector.declared, mro(k), "_namespace") :
        k \in collector.collected_classes} \ {None}

\* The prefixes that some source names for a namespace: the registry, the
\* ns_dict, the id namespace, the input namespaces, the XML namespaces and
\* the aliases of the classes.
SourcePrefixes(u) ==
    (IF contains_namespace(collector.registry, u)
     THEN get_prefixes(collector.registry, u) ELSE {})
    \cup {last.params[1][i][2] : i \in {j \in 1..Len(last.params[1]) :
                                          last.params[1][j][1] = u}}
    \cup (IF u = get_id_namespace THEN {get_id_namespace_alias} ELSE {})
    \cup {collector.input_namespaces[i][1] :
             i \in {j \in 1..Len(collector.input_namespaces) :
                      collector.input_namespaces[j][2] = u}}
    \cup (IF contains_namespace(XML_NAMESPACES, u)
          THEN get_prefixes(XML_NAMESPACES, u) ELSE {})
    \cup {AliasOf(collector, k) :
             k \in {c \in collector.collected_classes :
                      getattr_class(collector.declared, mro(c), "_namespace") = u}}

\* finalize has returned: the set has the required namespaces, each
\* namespace of the set has a preferred prefix that one of the sources
\* names for it, and binding_namespaces maps every namespace of the set,
\* and no other uri, to its preferred prefix.
FinalizedSet ==
    /\ collector.collected_namespaces.present
    /\ collector.binding_namespaces.present
    /\ collector.finalized_schemalocs.present
    /\ RequiredNamespaces \subseteq namespace_uris(CollectedSet)
    /\ \A u \in AllUris :
          IF contains_namespace(CollectedSet, u)
          THEN /\ ~Falsy(lookup_uri(CollectedSet, u).preferred_prefix)
               /\ lookup_uri(CollectedSet, u).preferred_prefix
                     \in SourcePrefixes(u)
               /\ collector.binding_namespaces.map[u]
                     = lookup_uri(CollectedSet, u).preferred_prefix
          ELSE collector.binding_namespaces.map[u] = 0

\* finalize has raised NamespaceNotFoundError for a namespace of a class
\* that is not registered (the subset of the registry cannot be made).
UnregisteredClass ==
    /\ last.exc.type = "NamespaceNotFoundError"
    /\ last.exc.args[1] \in ClassNamespaces
    /\ ~contains_namespace(collector.registry, last.exc.args[1])

\* finalize has raised NamespaceNotFoundError for a uri of ns_dict that is
\* given without alias and is not registered.
UnregisteredGiven ==
    /\ last.exc.type = "NamespaceNotFoundError"
    /\ ~contains_namespace(collector.registry, last.exc.args[1])
    /\ \E i \in 1..Len(last.params[1]) :
          /\ last.params[1][i][1] = last.exc.args[1]
          /\ Falsy(last.params[1][i][2])

\* finalize has raised NoPrefixesError for a namespace of the set that has
\* no prefix there and is registered without a preferred prefix.
NoPrefixRegistered ==
    /\ last.exc.type = "NoPrefixesError"
    /\ contains_namespace(CollectedSet, last.exc.args[1])
    /\ get_prefixes(CollectedSet, last.exc.args[1]) = {}
    /\ contains_namespace(collector.registry, last.exc.args[1])
    /\ lookup_uri(collector.registry, last.exc.args[1]).preferred_prefix = None

\* What finalize does: it returns with FinalizedSet, or it raises
\* NoPrefixesError, DuplicatePrefixError, or NamespaceNotFoundError for an
\* unregistered namespace of a class or of ns_dict.
FinalizeOutcomes ==
    last.call = "finalize" =>
        IF last.exc = NoExc THEN FinalizedSet
        ELSE \/ NoPrefixRegistered
             \/ last.exc.type = "DuplicatePrefixError"
             \/ UnregisteredClass
             \/ UnregisteredGiven

\* finalize returned after it elected a prefix of the registry for the
\* XML namespace, which ns_dict names without alias.
FinalizedFromRegistry ==
    /\ last.call = "finalize"
    /\ last.exc = NoExc
    /\ last.params[1] = <<<<NumUris + NumForeignUris, None>>>>
    /\ collector.collected_classes # {}
    /\ NumUris + NumForeignUris \notin ClassNamespaces
    /\ collector.binding_namespaces.map[NumUris + NumForeignUris] = NumPrefixes

\* finalize returned after it elected, for the namespace of a class that is
\* registered without a prefix, the alias that the id namespace added.
FinalizedFromPrefixes ==
    /\ last.call = "finalize"
    /\ last.exc = NoExc
    /\ get_id_namespace \in ClassNamespaces
    /\ get_prefixes(collector.registry, get_id_namespace) = {}
    /\ \A k \in collector.collected_classes : AliasOf(collector, k) = None
    /\ collector.binding_namespaces.map[get_id_namespace]
          = get_id_namespace_alias

\* finalize raised NoPrefixesError.
FinalizeNoPrefixes ==
    last.call = "finalize" /\ NoPrefixRegistered

\* C23: when finalize returns, every namespace of the collected set has a
\* preferred prefix and an entry in binding_namespaces, a prefix being
\* elected from the registered ones where it lacks; when no prefix can be
\* found finalize fails with NoPrefixesError.
C23_Finalize ==
    last.call = "finalize" =>
        IF last.exc = NoExc THEN FinalizedSet
        ELSE \/ last.exc.type = "NoPrefixesError"
             \/ last.exc.type = "DuplicatePrefixError"
             \/ UnregisteredClass
====
